---- MODULE Spec2Model ----
(***************************************************************************)
(* Model of the impact-effect estimation pipeline of meteor-madness:       *)
(* the quiz builders, the tsunami / density / casualty estimators, the     *)
(* zustand store's energy model, and the two React components (ImpactMap,  *)
(* QuizMode) that sequence the network lookups.                            *)
(*                                                                         *)
(* Number conventions (JS doubles are modelled in fixed point):            *)
(*   energy      milli-megatons TNT  (1000 = 1 Mt)                         *)
(*   lengths     decametres          (100  = 1 km)                         *)
(*   waves       centimetres                                               *)
(*   elevation   metres                                                    *)
(*   fatality    1e-5                (3000 = 0.03, 90000 = 0.9)            *)
(*   area        units of pi*(10 m)^2 are avoided: areaKm2 is kept in      *)
(*               dam^2 (1e-4 km^2) with pi = 355/113                       *)
(* A nullable value is <<>> (null) or <<v>>.                               *)
(***************************************************************************)
EXTENDS Integers, Sequences, FiniteSets, TLC

VARIABLES store, panel, quiz, net, call

vars == <<store, panel, quiz, net, call>>

(***************************************************************************)
(* Generic helpers                                                         *)
(***************************************************************************)
Null == <<>>

Some(v) == <<v>>

IsNull(x) == x = <<>>

Val(x) == x[1]

Max(a, b) == IF a >= b THEN a ELSE b

Min(a, b) == IF a <= b THEN a ELSE b

Abs(a) == IF a < 0 THEN -a ELSE a

\* Math.round(num/den) for den > 0: floor(x + 0.5)
MathRound(num, den) == (2 * num + den) \div (2 * den)

\* Number.prototype.toFixed scaling of num/den to an integer count of the last
\* printed digit: nearest integer, ties to the larger magnitude
ToFixed(num, den) ==
    IF num >= 0 THEN (2 * num + den) \div (2 * den)
    ELSE -((2 * (-num) + den) \div (2 * den))

\* src/unnamed/part_000:19, src/src/lib/dynamics.ts:5
clamp(v, lo, hi) == Max(lo, Min(hi, v))

RECURSIVE Pow10(_)
Pow10(e) == IF e <= 0 THEN 1 ELSE 10 * Pow10(e - 1)

RECURSIVE NumDigits(_)
NumDigits(n) == IF n < 10 THEN 1 ELSE 1 + NumDigits(n \div 10)

\* Math.cbrt on a non-negative integer, rounded down
ICbrt(n) == CHOOSE k \in 0..1260 : k * k * k <= n /\ (k + 1) * (k + 1) * (k + 1) > n

\* Math.sqrt on a non-negative integer, rounded down
ISqrt(n) == CHOOSE k \in 0..2000 : k * k <= n /\ (k + 1) * (k + 1) > n

\* 1000 * log10(d) for the leading digit d = 1..10
LogTable == <<0, 301, 477, 602, 699, 778, 845, 903, 954, 1000>>

\* 1000 * Math.log10(n) for an integer n >= 1: exact exponent, mantissa from
\* the table with linear interpolation on the second digit
Log10x1000(n) ==
    LET e == NumDigits(n) - 1
        d == n \div Pow10(e)
        s == IF e = 0 THEN 0 ELSE (n \div Pow10(e - 1)) % 10
    IN 1000 * e + LogTable[d] + ((LogTable[d + 1] - LogTable[d]) * s) \div 10

\* 1000 * Math.log10(Math.max(1e-6, E)) for E in milli-Mt
Log10EnergyFloor(E) == IF E <= 0 THEN -6000 ELSE Log10x1000(E) - 3000

\* 100 * Math.cbrt(E) for E in milli-Mt (Math.cbrt is odd)
Cbrt100(E) ==
    LET pos(n) == IF n <= 2000000 THEN ICbrt(n * 1000) ELSE 10 * ICbrt(n)
    IN IF E < 0 THEN -pos(-E) ELSE pos(E)

\* the double product a * b / c, rounded down, computed within 32 bits
\* (exact when (a % c) * b fits, else c is a multiple of 1000)
MulDiv(a, b, c) ==
    LET q == a \div c
        r == a % c
    IN IF b = 0 THEN 0
       ELSE IF r <= 2000000000 \div Abs(b) THEN q * b + (r * b) \div c
       ELSE q * b + ((r \div 1000) * b + ((r % 1000) * b) \div 1000) \div (c \div 1000)

\* the permutations of 1..4 that a shuffle can draw
Perms4 == {p \in [1..4 -> 1..4] : \A i, j \in 1..4 : i # j => p[i] # p[j]}

\* Array.prototype.indexOf, 1-based; 0 when absent
IndexOf(seq, x) ==
    IF \E i \in 1..Len(seq) : seq[i] = x
    THEN CHOOSE i \in 1..Len(seq) : seq[i] = x /\ \A j \in 1..(i - 1) : seq[j] # x
    ELSE 0

\* order.map(i => arr[i])
MapOrder(order, arr) == [i \in 1..4 |-> arr[order[i]]]

\* the slip order[i] for order.indexOf(i)
OrderAt(order, i) == order[i]

\* order.indexOf(i), 1-based (order is a permutation of 1..4)
OrderIndexOf(order, i) == CHOOSE k \in 1..4 : order[k] = i

(***************************************************************************)
(* src/lib/tsunami.ts (src/unnamed/part_000:208-387)                       *)
(***************************************************************************)

\* the elevation service's possible answers to one lookup
ElevationOutcomes ==
    {[kind |-> "reject"], [kind |-> "badjson"], [kind |-> "nulldata"],
     [kind |-> "noresults"], [kind |-> "emptyresults"], [kind |-> "nofield"]}
    \cup {[kind |-> "ok", elevation |-> e] : e \in {-3000, -150, -1, 0, 5, 9, 10, 50, 99, 100, 200, 499, 500, 600}}

\* the lookup without its catch: the exception of fetch or r.json() escapes
ParseElevationNoCatch(resp) ==
    [threw |-> resp.kind \in {"reject", "badjson"},
     elevation |-> IF resp.kind = "ok" THEN Some(resp.elevation) ELSE Null]

\* part_000:233-240: the try/catch around fetch, r.json() and the optional
\* chain data?.results?.[0]?.elevation ?? null. fetch or r.json() raise on
\* "reject" / "badjson"; the catch swallows the exception.
ParseElevation(resp) ==
    LET raised == resp.kind \in {"reject", "badjson"}
    IN [threw |-> FALSE,
        elevation |-> IF raised THEN Null
                      ELSE IF resp.kind = "ok" THEN Some(resp.elevation)
                      ELSE Null]

\* the classification with its thresholds taken inclusively
classifyTerrainInclusive(elevation) ==
    IF IsNull(elevation) THEN "Unknown"
    ELSE IF Val(elevation) <= 0 THEN "Ocean/Sea"
    ELSE IF Val(elevation) <= 10 THEN "Coastal/Low-lying"
    ELSE IF Val(elevation) <= 100 THEN "Plains/Valley"
    ELSE IF Val(elevation) <= 500 THEN "Hills/Plateau"
    ELSE "Mountains"

\* part_000:243-249
classifyTerrain(elevation) ==
    IF IsNull(elevation) THEN "Unknown"
    ELSE IF Val(elevation) < 0 THEN "Ocean/Sea"
    ELSE IF Val(elevation) < 10 THEN "Coastal/Low-lying"
    ELSE IF Val(elevation) < 100 THEN "Plains/Valley"
    ELSE IF Val(elevation) < 500 THEN "Hills/Plateau"
    ELSE "Mountains"

\* part_000:303-309
riskFromWave(waveCoastM) ==
    IF IsNull(waveCoastM) THEN "Unable to determine"
    ELSE IF Val(waveCoastM) > 5000 THEN "EXTREME"
    ELSE IF Val(waveCoastM) > 1500 THEN "HIGH"
    ELSE IF Val(waveCoastM) > 500 THEN "MODERATE"
    ELSE IF Val(waveCoastM) > 100 THEN "LOW"
    ELSE "NEGLIGIBLE"

\* the wave heights without the caps of lines 288 and 294
tsunamiWavesUncapped(terrain, elev, energyTNT, craterKm) ==
    LET cbrtE == Cbrt100(Max(energyTNT, 0))
    IN IF terrain = "Ocean/Sea" THEN
           LET depthCap == clamp(Abs(elev), 200, 6000)
               deep     == (6 * cbrtE * ISqrt(depthCap * 250)) \div 10000
           IN <<deep, (deep * 2991) \div 1000>>
       ELSE IF terrain = "Coastal/Low-lying" THEN
           <<0, (35 * cbrtE) \div 100 + craterKm \div 10>>
       ELSE <<0, 0>>

\* part_000:271-300: <<waveDeepM, waveCoastM>> in cm for a known elevation
tsunamiWaves(terrain, elev, energyTNT, craterKm) ==
    LET cbrtE == Cbrt100(Max(energyTNT, 0))
    IN IF terrain = "Ocean/Sea" THEN
           LET depth    == Abs(elev)
               depthCap == clamp(depth, 200, 6000)
               deep     == (6 * cbrtE * ISqrt(depthCap * 250)) \div 10000
               coast    == clamp((deep * 2991) \div 1000, 100, 12000)
           IN <<deep, coast>>
       ELSE IF terrain = "Coastal/Low-lying" THEN
           <<0, clamp((35 * cbrtE) \div 100 + craterKm \div 10, 50, 3000)>>
       ELSE <<0, 0>>

\* part_000:227-312: assessTsunami given the elevation service's answer
assessTsunami(resp, energyTNT, craterKm) ==
    LET fetched   == ParseElevation(resp)
        elevation == fetched.elevation
        terrain   == classifyTerrain(elevation)
    IN IF fetched.threw THEN [threw |-> TRUE]
       ELSE IF IsNull(elevation) THEN
           [threw |-> FALSE, elevation |-> elevation, terrain |-> terrain,
            risk |-> "Unable to determine", waveDeepM |-> Null, waveCoastM |-> Null]
       ELSE
           LET w == tsunamiWaves(terrain, Val(elevation), energyTNT, craterKm)
           IN [threw |-> FALSE, elevation |-> elevation, terrain |-> terrain,
               risk |-> riskFromWave(Some(w[2])),
               waveDeepM |-> Some(w[1]), waveCoastM |-> Some(w[2])]

\* the while loop of `add`: bump x by step(x) until it is not in used
RECURSIVE BumpUnique(_, _, _)
BumpUnique(x, used, pct) ==
    IF x \in used
    THEN BumpUnique(x + (IF pct = 0 THEN 1 ELSE Max(1, MathRound(x * pct, 100))), used, pct)
    ELSE x

\* a Set<number> filled by successive add(v): the values in insertion order
RECURSIVE AddAll(_, _, _)
AddAll(vals, acc, pct) ==
    IF vals = <<>> THEN acc
    ELSE AddAll(Tail(vals),
                Append(acc, BumpUnique(Head(vals), {acc[i] : i \in 1..Len(acc)}, pct)),
                pct)

\* part_000:345
clampH(num, den) == Max(1, Min(200, MathRound(num, den)))

\* part_000:318-342: the risk-only question
tsunamiRiskOnly(a) ==
    LET levels  == <<"NEGLIGIBLE", "LOW", "MODERATE", "HIGH", "EXTREME">>
        choices == IF a.risk = "Unable to determine"
                   THEN <<"Unable to determine", "LOW", "MODERATE", "HIGH">>
                   ELSE levels
        expl(c) == IF c = "Unable to determine" THEN <<"unavailable">>
                   ELSE IF c = a.risk THEN <<"matches", a.terrain, a.risk>>
                   ELSE <<"no-match">>
    IN [q |-> "tsunami-risk",
        choices |-> choices,
        explanations |-> [i \in 1..Len(choices) |-> expl(choices[i])],
        answer |-> IF a.risk = "Unable to determine" THEN 0
                   ELSE Max(0, IndexOf(levels, a.risk) - 1)]

\* part_000:345-386: the numeric-height question
tsunamiNumeric(a, order) ==
    LET target  == clampH(Val(a.waveCoastM), 100)
        heights == AddAll(<<target, clampH(target * 55, 100), clampH(target * 8, 10),
                            clampH(target * 16, 10)>>, <<>>, 0)
        options == [i \in 1..4 |-> <<a.risk, heights[i]>>]
        correctIndexRaw == IndexOf(heights, target)
        explRaw == [i \in 1..4 |->
                      IF i = correctIndexRaw THEN <<"correct", a.terrain, target>>
                      ELSE IF heights[i] < target
                           THEN <<"undershoots", Abs(heights[i] - target)>>
                           ELSE <<"overshoots", Abs(heights[i] - target)>>]
    IN [q |-> "tsunami-height",
        choices |-> MapOrder(order, options),
        explanations |-> MapOrder(order, explRaw),
        answer |-> OrderIndexOf(order, correctIndexRaw) - 1]

\* part_000:315-387
buildTsunamiQuestion(a, order) ==
    IF IsNull(a.waveCoastM) \/ Val(a.waveCoastM) < 100
    THEN tsunamiRiskOnly(a)
    ELSE tsunamiNumeric(a, order)

(***************************************************************************)
(* src/lib/casualty.ts (src/unnamed/part_000:1-206)                        *)
(***************************************************************************)

\* part_000:28-35
PLACE_DENSITY ==
    [city |-> 5000, suburb |-> 2500, neighbourhood |-> 3000,
     town |-> 1500, village |-> 400, hamlet |-> 80]

\* part_000:37-44 and the `?? 150` of lines 88 and 91
TERRAIN_DENSITY(terrain) ==
    CASE terrain = "Ocean/Sea" -> 0
      [] terrain = "Coastal/Low-lying" -> 800
      [] terrain = "Plains/Valley" -> 150
      [] terrain = "Hills/Plateau" -> 90
      [] terrain = "Mountains" -> 40
      [] terrain = "Unknown" -> 150
      [] OTHER -> 150

TerrainKinds ==
    {"Ocean/Sea", "Coastal/Low-lying", "Plains/Valley", "Hills/Plateau", "Mountains", "Unknown"}

\* the place values an element can carry: the six classes, two values that the
\* query's regular expression also matches, and "" for an element with no tags
\* or no place tag
PlaceValues ==
    {"city", "suburb", "neighbourhood", "town", "village", "hamlet",
     "city_block", "township", ""}

\* the loop that keeps the first known class it sees
RECURSIVE bestCategoryFirst(_, _)
bestCategoryFirst(els, bestCat) ==
    IF els = <<>> THEN bestCat
    ELSE IF bestCat = "" /\ Head(els) \in DOMAIN PLACE_DENSITY
         THEN bestCategoryFirst(Tail(els), Head(els))
         ELSE bestCategoryFirst(Tail(els), bestCat)

\* part_000:69-82: the loop over the elements, bestCat = "" standing for null
RECURSIVE bestCategory(_, _)
bestCategory(els, bestCat) ==
    IF els = <<>> THEN bestCat
    ELSE LET place == Head(els)
         IN IF place = "" THEN bestCategory(Tail(els), bestCat)
            ELSE IF place \in DOMAIN PLACE_DENSITY
                 THEN IF bestCat = "" THEN bestCategory(Tail(els), place)
                      ELSE IF PLACE_DENSITY[place] > PLACE_DENSITY[bestCat]
                           THEN bestCategory(Tail(els), place)
                           ELSE bestCategory(Tail(els), bestCat)
                 ELSE bestCategory(Tail(els), bestCat)

\* the fallback that forgets the coastal category
terrainFallbackRural(terrain, note) ==
    [threw |-> FALSE, densityPkm2 |-> TERRAIN_DENSITY(terrain), category |-> "rural",
     source |-> "terrain-fallback", note |-> note]

\* part_000:87-89 and 90-93
terrainFallback(terrain, note) ==
    [threw |-> FALSE,
     densityPkm2 |-> TERRAIN_DENSITY(terrain),
     category |-> IF terrain = "Coastal/Low-lying" THEN "coast" ELSE "rural",
     source |-> "terrain-fallback",
     note |-> note]

\* part_000:50-94: assessPopulationDensity given the place-tag service's answer.
\* resp.kind: "reject" (fetch fails), "badjson" (r.json() fails), "malformed"
\* (elements not iterable, or a null element), "noelements" (no elements
\* field) or "ok" with the elements' place values
assessPopulationDensity(resp, terrain) ==
    LET raised == resp.kind \in {"reject", "badjson", "malformed"}
        els    == IF resp.kind = "ok" THEN resp.elements ELSE <<>>
        best   == bestCategory(els, "")
    IN IF raised THEN terrainFallback(terrain, "Overpass unavailable")
       ELSE IF best # ""
            THEN [threw |-> FALSE, densityPkm2 |-> PLACE_DENSITY[best],
                  category |-> best, source |-> "overpass", note |-> ""]
            ELSE terrainFallback(terrain, "No OSM place nearby")

\* the rounding that takes the step below the mantissa instead of the nearest
roundSigDown(n) ==
    IF n <= 0 THEN 0
    ELSE LET e == NumDigits(n) - 1
             p == Pow10(e)
             sig == IF n < 2 * p THEN 1 ELSE IF n < 5 * p THEN 2 ELSE 5
         IN sig * p

\* part_000:20-26: roundSig on a count kept in hundredths
roundSig(n) ==
    IF n <= 0 THEN 0
    ELSE LET e == NumDigits(n) - 1
             p == Pow10(e)
             sig == IF 2 * n < 3 * p THEN 1
                    ELSE IF 2 * n < 7 * p THEN 2
                    ELSE IF 2 * n < 15 * p THEN 5
                    ELSE 10
         IN sig * p

\* part_000:116-120
tsunamiAdj(tsunamiRisk) ==
    CASE tsunamiRisk = "EXTREME" -> 20000
      [] tsunamiRisk = "HIGH" -> 12000
      [] tsunamiRisk = "MODERATE" -> 6000
      [] tsunamiRisk = "LOW" -> 2000
      [] OTHER -> 0

\* the fatality rate without the final clamp of line 121
fatalityRateUnclamped(energyTNT, tsunamiRisk) ==
    clamp(8000 + 12 * Log10EnergyFloor(energyTNT), 3000, 75000) + tsunamiAdj(tsunamiRisk)

\* part_000:115-121
fatalityRateOf(energyTNT, tsunamiRisk) ==
    LET baseF == clamp(8000 + 12 * Log10EnergyFloor(energyTNT), 3000, 75000)
    IN clamp(baseF + tsunamiAdj(tsunamiRisk), 3000, 90000)

\* part_000:111-113: pi * Re * Re with Re in dam
affectedArea(craterKm, blastRadiusKm) ==
    LET craterR == Max(0, craterKm \div 2)
        Re      == Max(10, craterR + (6 * Max(0, blastRadiusKm)) \div 10)
    IN MulDiv(Re * Re, 355, 113)

\* the estimate that takes a density of 0 for a missing one (densityPkm2 || 150)
estimateCasualtiesDefaultDensity(p) ==
    LET areaKm2       == affectedArea(p.craterKm, p.blastRadiusKm)
        fatalityRate  == fatalityRateOf(p.energyTNT, p.tsunamiRisk)
        densityPkm2   == IF p.densityPkm2 = 0 THEN 150 ELSE p.densityPkm2
        casualtiesRaw == MulDiv(MulDiv(areaKm2, densityPkm2, 100), fatalityRate, 100000)
    IN [density |-> [densityPkm2 |-> p.densityPkm2, category |-> "unknown",
                     source |-> "overpass", note |-> ""],
        areaKm2 |-> areaKm2,
        fatalityRate |-> fatalityRate,
        casualties |-> roundSig(casualtiesRaw)]

\* part_000:102-132
estimateCasualties(p) ==
    LET areaKm2       == affectedArea(p.craterKm, p.blastRadiusKm)
        fatalityRate  == fatalityRateOf(p.energyTNT, p.tsunamiRisk)
        casualtiesRaw == MulDiv(MulDiv(areaKm2, p.densityPkm2, 100), fatalityRate, 100000)
    IN [density |-> [densityPkm2 |-> p.densityPkm2, category |-> "unknown",
                     source |-> "overpass", note |-> ""],
        areaKm2 |-> areaKm2,
        fatalityRate |-> fatalityRate,
        casualties |-> roundSig(casualtiesRaw)]

\* part_000:175-178: the compact label, as <<unit, decimals, digits>>
fmt(n) ==
    IF n >= 1000000
    THEN IF n >= 10000000 THEN <<"M", 0, ToFixed(n, 1000000)>>
         ELSE <<"M", 1, ToFixed(n, 100000)>>
    ELSE IF n >= 1000
    THEN IF n >= 10000 THEN <<"k", 0, ToFixed(n, 1000)>>
         ELSE <<"k", 1, ToFixed(n, 100)>>
    ELSE <<"", 0, n>>

\* part_000:143-158: the qualitative question
casualtyFactors ==
    [q |-> "casualty-factors",
     choices |-> <<"Impact energy", "Population density",
                   "Local terrain/elevation", "All of the above">>,
     explanations |-> <<"energy-not-alone", "density-not-alone",
                        "terrain-not-alone", "all-together">>,
     answer |-> 3]

\* part_000:160-205: the numeric question
casualtyNumeric(args, order) ==
    LET c   == Max(1, MathRound(args.casualties, 100))
        arr == AddAll(<<c, Max(1, MathRound(c * 45, 100)), Max(1, MathRound(c * 75, 100)),
                        Max(1, MathRound(c * 16, 10))>>, <<>>, 3)
        optionsRaw == [i \in 1..4 |-> fmt(arr[i])]
        correctIdxRaw == IndexOf(arr, c)
        explRaw == [i \in 1..4 |->
                      IF i = correctIdxRaw
                      THEN <<"matches", fmt(c), args.areaKm2, args.fatalityRate,
                             args.density.densityPkm2,
                             IF args.density.source = "overpass"
                             THEN args.density.category ELSE "fallback">>
                      ELSE IF arr[i] < c THEN <<"undershoots", fmt(Abs(arr[i] - c))>>
                           ELSE <<"overshoots", fmt(Abs(arr[i] - c))>>]
    IN [q |-> "casualty-toll",
        choices |-> MapOrder(order, optionsRaw),
        explanations |-> MapOrder(order, explRaw),
        answer |-> OrderIndexOf(order, correctIdxRaw) - 1]

\* part_000:135-206
buildCasualtyQuestion(args, order) ==
    IF args.casualties <= 0 THEN casualtyFactors
    ELSE casualtyNumeric(args, order)

(***************************************************************************)
(* src/lib/dynamics.ts                                                     *)
(***************************************************************************)

\* dynamics.ts:26: clamp(3 * cbrt(max(E, 0)), 1, 200) in hundredths of a km
thermalRadius(energyTNT) == clamp(3 * Cbrt100(Max(energyTNT, 0)), 100, 20000)

\* dynamics.ts:24-48
buildThermalQuestion(energyTNT, order) ==
    LET r    == thermalRadius(energyTNT)
        vals == AddAll(<<Max(1, MathRound(r, 100)), Max(1, MathRound(r * 55, 10000)),
                         Max(1, MathRound(r * 8, 1000)), Max(1, MathRound(r * 16, 1000))>>,
                       <<>>, 3)
        correctRaw == vals[1]
        optionsRaw == [i \in 1..4 |-> <<"km-radius", vals[i]>>]
        explRaw == [i \in 1..4 |->
                      IF i = 1 THEN <<"scales", ToFixed(energyTNT, 10), MathRound(r, 100)>>
                      ELSE IF vals[i] * 100 < r
                           THEN <<"undershoots", Abs(vals[i] - MathRound(r, 100))>>
                           ELSE <<"overshoots", Abs(vals[i] - MathRound(r, 100))>>]
    IN [q |-> "thermal",
        choices |-> MapOrder(order, optionsRaw),
        explanations |-> MapOrder(order, explRaw),
        answer |-> OrderIndexOf(order, IndexOf(vals, correctRaw)) - 1]

\* Array.from(new Set(candidates)): first occurrences, in order
RECURSIVE Dedup(_, _)
Dedup(vals, acc) ==
    IF vals = <<>> THEN acc
    ELSE IF \E i \in 1..Len(acc) : acc[i] = Head(vals)
         THEN Dedup(Tail(vals), acc)
         ELSE Dedup(Tail(vals), Append(acc, Head(vals)))

\* dynamics.ts:67: while (unique.length < 4) unique.push(center + random draw)
RECURSIVE PadTo4(_, _)
PadTo4(unique, extra) ==
    IF Len(unique) >= 4 THEN unique ELSE PadTo4(Append(unique, extra), extra)

\* dynamics.ts:55-56: Number((4 + log10(max(E, 1e-6))).toFixed(1)) in tenths
seismicCenter(energyTNT) == ToFixed(4000 + Log10EnergyFloor(energyTNT), 100)

\* dynamics.ts:54-88; draw is the offset (tenths) Math.random() yields at line 67
buildSeismicQuestion(energyTNT, order, draw) ==
    LET center == seismicCenter(energyTNT)
        unique == PadTo4(Dedup(<<center, center - 6, center + 4, center - 2>>, <<>>),
                         center + draw)
        correct == unique[1]
        optionsRaw == [i \in 1..Len(unique) |-> <<"Magnitude", unique[i]>>]
        explRaw == [i \in 1..Len(unique) |->
                      IF unique[i] = correct
                      THEN <<"uses", ToFixed(energyTNT, 10), center>>
                      ELSE <<"off", Abs(unique[i] - center)>>]
    IN [q |-> "seismic",
        choices |-> MapOrder(order, optionsRaw),
        explanations |-> MapOrder(order, explRaw),
        answer |-> OrderIndexOf(order, IndexOf(unique, correct)) - 1]

\* dynamics.ts:95-101: classes.findIndex(c => c.ok(energyTNT)), 0-based
energyClassIndex(energyTNT) ==
    IF energyTNT < 1000 THEN 0
    ELSE IF energyTNT < 100000 THEN 1
    ELSE IF energyTNT < 1000000 THEN 2
    ELSE 3

\* dynamics.ts:94-113
buildEnergyClassQuestion(energyTNT) ==
    LET labels == <<"City-killer (< 1 Mt)", "Regional (1-100 Mt)",
                    "Continental (100-1000 Mt)", "Global (> 1000 Mt)">>
        answer == energyClassIndex(energyTNT)
    IN [q |-> "energy-class",
        choices |-> labels,
        explanations |-> [i \in 1..4 |->
                             IF i - 1 = answer
                             THEN <<"fits", ToFixed(energyTNT, 10), labels[i]>>
                             ELSE <<"does-not-match", ToFixed(energyTNT, 10)>>],
        answer |-> Max(0, answer)]

(***************************************************************************)
(* src/state/useSimStore.ts                                                *)
(* A store number is a JS double: finite (an integer in the model's units: *)
(* size m, speed km/s, density kg/m3, energy milli-Mt, radii dam), NaN or  *)
(* +-Infinity.                                                             *)
(***************************************************************************)
Fin(v) == [k |-> "fin", v |-> v]

NaN == [k |-> "nan", v |-> 0]

Inf(sgn) == [k |-> "inf", v |-> sgn]

Sign(n) == IF n.k = "nan" THEN 0 ELSE IF n.v > 0 THEN 1 ELSE IF n.v < 0 THEN -1 ELSE 0

IsFinite(n) == n.k = "fin"

\* part_000:20-26 on a number that may be NaN or infinite
roundSigOf(x) == IF ~IsFinite(x) \/ x.v <= 0 THEN 0 ELSE roundSig(x.v)

\* part_000:102-132 for an energy and a density that may be NaN or infinite
\* (IEEE rules: Math.max(1e-6, NaN) and every product with NaN are NaN;
\* log10 of Infinity is clamped to 0.75; area and rate are positive)
estimateCasualtiesOf(p) ==
    LET areaKm2 == affectedArea(p.craterKm, p.blastRadiusKm)
        E == p.energyTNT
        d == p.densityPkm2
        fatalityRate ==
            IF E.k = "nan" THEN NaN
            ELSE IF E.k = "inf"
                 THEN Fin(fatalityRateOf(IF E.v > 0 THEN 1000000000 ELSE 0, p.tsunamiRisk))
                 ELSE Fin(fatalityRateOf(E.v, p.tsunamiRisk))
        casualtiesRaw ==
            IF d.k = "nan" \/ fatalityRate.k = "nan" THEN NaN
            ELSE IF d.k = "inf" THEN Inf(d.v)
            ELSE Fin(MulDiv(MulDiv(areaKm2, d.v, 100), fatalityRate.v, 100000))
    IN [density |-> [densityPkm2 |-> d, category |-> "unknown",
                     source |-> "overpass", note |-> ""],
        areaKm2 |-> areaKm2,
        fatalityRate |-> fatalityRate,
        casualties |-> roundSigOf(casualtiesRaw)]

\* an energy estimate that leaves the density out (a reference body of 3000 kg/m3)
estimateEnergyFixedDensity(size, density, speed) ==
    Fin(MulDiv(MulDiv(MulDiv(size.v * size.v * size.v, 3000, 1000),
                      speed.v * speed.v, 1000),
               62571, 1000000))

\* useSimStore.ts:18-25: pi/12 * 1e6 / 4.184e15 = 6.2571e-11 Mt per kg m2/s2;
\* no operand is clamped or tested, so IEEE rules carry NaN, Infinity and signs
estimateEnergyMtTNT(size, density, speed) ==
    IF size.k = "nan" \/ density.k = "nan" \/ speed.k = "nan" THEN NaN
    ELSE IF size.k = "inf" \/ density.k = "inf" \/ speed.k = "inf"
    THEN IF Sign(size) = 0 \/ Sign(density) = 0 \/ Sign(speed) = 0 THEN NaN
         ELSE Inf(Sign(size) * Sign(density))
    ELSE Fin(MulDiv(MulDiv(MulDiv(size.v * size.v * size.v, density.v, 1000),
                           speed.v * speed.v, 1000),
                    62571, 1000000))

\* a + b * E / c for a store number E (a, b, c > 0 literals)
Affine(a, b, c, E) ==
    IF E.k = "fin" THEN Fin(a + (b * E.v) \div c) ELSE E

\* the cube root of the energy without the factor 1.2
craterOfUnscaled(E) == IF E.k = "fin" THEN Fin(Cbrt100(E.v)) ELSE E

\* useSimStore.ts:144: Math.cbrt(E) * 1.2 in dam
craterOf(E) == IF E.k = "fin" THEN Fin((12 * Cbrt100(E.v)) \div 10) ELSE E

\* useSimStore.ts:134-154: the partial state recalcHazards sets
recalcHazards(st, size, speed, density) ==
    LET E == estimateEnergyMtTNT(size, density, speed)
    IN [st EXCEPT !.blastKm = Affine(8000, 1, 2, E),
                  !.seismicKm = Affine(4000, 1, 5, E),
                  !.tsunamiKm = Affine(12000, 6, 10, E),
                  !.readouts = [speed |-> speed, size |-> size, density |-> density,
                                eta |-> st.duration - st.time,
                                energyTNT |-> E, craterKm |-> craterOf(E)]]

\* useSimStore.ts:176-182
presets ==
    [tiny  |-> [size |-> 40,  speed |-> 15, density |-> 2500],
     small |-> [size |-> 120, speed |-> 18, density |-> 3000],
     med   |-> [size |-> 350, speed |-> 25, density |-> 3000],
     large |-> [size |-> 800, speed |-> 28, density |-> 3200],
     iron  |-> [size |-> 200, speed |-> 30, density |-> 7800]]

\* useSimStore.ts:156-211: base, the initial impact point from
\* simplePathAtTime (kinematics.ts:26-80) rounded to degrees, then
\* recalcHazards(). Times are in ms, quizStopT in thousandths.
base ==
    [time |-> 0, duration |-> 10000, running |-> FALSE,
     size |-> Fin(120), speed |-> Fin(18), density |-> Fin(3000),
     approachAngle |-> 35,
     impactLat |-> 41, impactLon |-> -76,
     targetLat |-> 40, targetLon |-> -100, useTargetImpact |-> FALSE,
     blastKm |-> Fin(0), seismicKm |-> Fin(0), tsunamiKm |-> Fin(0),
     quizStopT |-> 960, quizVisible |-> FALSE, mode |-> "scenario",
     selectedPresetId |-> "small",
     readouts |-> [speed |-> Fin(0), size |-> Fin(0), density |-> Fin(0), eta |-> 0,
                   energyTNT |-> Fin(0), craterKm |-> Fin(0)],
     hasImpacted |-> FALSE, showImpactMap |-> FALSE,
     isShaking |-> FALSE, shakeIntensity |-> 0, hasShaken |-> FALSE,
     nasaAsteroidData |-> Null, useNasaData |-> FALSE]

StoreInit == recalcHazards(base, base.size, base.speed, base.density)

\* useSimStore.ts:316
setSizeState(st, v) == recalcHazards([st EXCEPT !.size = v], v, st.speed, st.density)

\* a speed setter that stores the speed and leaves the derived values as they were
setSpeedOnly(st, v) == [st EXCEPT !.speed = v]

\* useSimStore.ts:317
setSpeedState(st, v) == recalcHazards([st EXCEPT !.speed = v], st.size, v, st.density)

\* useSimStore.ts:318
setDensityState(st, v) == recalcHazards([st EXCEPT !.density = v], st.size, st.speed, v)

\* useSimStore.ts:280-296
selectPresetState(st, id) ==
    IF id \notin DOMAIN presets THEN st
    ELSE LET p == presets[id]
         IN recalcHazards([st EXCEPT !.selectedPresetId = id,
                                     !.size = Fin(p.size), !.speed = Fin(p.speed),
                                     !.density = Fin(p.density),
                                     !.hasShaken = FALSE, !.isShaking = FALSE,
                                     !.shakeIntensity = 0, !.hasImpacted = FALSE,
                                     !.time = 0],
                           Fin(p.size), Fin(p.speed), Fin(p.density))

\* useSimStore.ts:309-313: setTime(v) for any number v (ms when finite)
setTimeOf(st, v) ==
    LET vv == IF v.k = "fin" THEN v.v ELSE 0
    IN [st EXCEPT !.time = Max(0, Min(st.duration, vv))]

\* useSimStore.ts:314: setDuration(v) for any number v (ms when finite)
setDurationState(st, v) ==
    [st EXCEPT !.duration = Max(100, IF v.k = "fin" THEN v.v ELSE 10000)]

\* useSimStore.ts:319 for a finite angle
setApproachAngleState(st, v) == [st EXCEPT !.approachAngle = v.v]

\* useSimStore.ts:382-395: setParam(key, value); the mitigation keys, and any
\* other key, leave the fields modelled here alone
setParamState(st, key, v) ==
    CASE key = "size" -> setSizeState(st, v)
      [] key = "speed" -> setSpeedState(st, v)
      [] key = "density" -> setDensityState(st, v)
      [] key = "approachAngle" -> setApproachAngleState(st, v)
      [] key = "duration" -> setDurationState(st, v)
      [] key = "time" -> setTimeOf(st, v)
      [] OTHER -> st

\* useSimStore.ts:345-357
clearNasaDataState(st) ==
    recalcHazards([st EXCEPT !.nasaAsteroidData = Null, !.useNasaData = FALSE,
                             !.size = Fin(120), !.speed = Fin(25),
                             !.approachAngle = 45],
                  Fin(120), Fin(25), st.density)

\* useSimStore.ts:320-343; data is Null or Some of a record with the fields
\* the handler reads: size.meters.min/max (m), speed.kmPerSecond (km/s, a
\* finite number >= 0) and orbital.inclinationDegrees
setNasaAsteroidDataState(st, data) ==
    IF IsNull(data) THEN [st EXCEPT !.nasaAsteroidData = data]
    ELSE LET d == Val(data)
             rawSize == (d.sizeMin + d.sizeMax) \div 2
             sizeInMeters == Max(10, Min(1000, rawSize))
             speedInKmS == Max(5, Min(100, IF d.kmPerSecond = 0 THEN 20 ELSE d.kmPerSecond))
             approachAngle == Max(0, Min(90, IF d.inclinationDegrees = 0 THEN 45
                                             ELSE d.inclinationDegrees))
         IN recalcHazards([st EXCEPT !.nasaAsteroidData = data,
                                     !.size = Fin(sizeInMeters), !.speed = Fin(speedInKmS),
                                     !.approachAngle = approachAngle, !.useNasaData = TRUE,
                                     !.hasShaken = FALSE, !.isShaking = FALSE,
                                     !.shakeIntensity = 0, !.hasImpacted = FALSE,
                                     !.time = 0],
                           Fin(sizeInMeters), Fin(speedInKmS), st.density)

(***************************************************************************)
(* src/modes/QuizMode.tsx (src/src/ui/QuizLaunchPrompt.tsx:30-)            *)
(***************************************************************************)

\* QuizLaunchPrompt.tsx:82-91: dens, then cas with cas.density = dens
quizCasualty(tsu, dens, energyTNT, craterKm) ==
    LET blastRadiusKm == (5 * craterKm) \div 2
        cas == estimateCasualties([energyTNT |-> energyTNT, craterKm |-> craterKm,
                                   blastRadiusKm |-> blastRadiusKm,
                                   densityPkm2 |-> dens.densityPkm2,
                                   tsunamiRisk |-> tsu.risk])
    IN [cas EXCEPT !.density = [densityPkm2 |-> dens.densityPkm2,
                                category |-> dens.category,
                                source |-> dens.source, note |-> dens.note]]

(***************************************************************************)
(* ImpactMap's own terrain and tsunami labels (src/src/ui/riskmodel.ts)    *)
(***************************************************************************)
\* riskmodel.ts:322-380: terrainType and tsunamiRisk set by analyzeEnvironmentalEffects
analyzeEnvironmentalEffects(elev, energyTNT) ==
    IF elev < 0 THEN
        [terrainType |-> "Ocean/Sea",
         tsunamiRisk |-> IF energyTNT > 100000 THEN "EXTREME - Mega-tsunami expected"
                         ELSE IF energyTNT > 10000 THEN "HIGH - Major tsunami likely"
                         ELSE "MODERATE - Local tsunami possible"]
    ELSE IF elev < 10 THEN
        [terrainType |-> "Coastal/Low-lying", tsunamiRisk |-> "MODERATE - Vulnerable to flooding"]
    ELSE IF elev < 100 THEN
        [terrainType |-> "Plains/Valley", tsunamiRisk |-> "LOW - Inland location"]
    ELSE IF elev < 500 THEN
        [terrainType |-> "Hills/Plateau", tsunamiRisk |-> "VERY LOW - Elevated terrain"]
    ELSE [terrainType |-> "Mountains", tsunamiRisk |-> "NEGLIGIBLE - Mountainous terrain"]

\* String.prototype.includes on the panel's risk labels, for the four words
\* lines 287-290 search for
Includes(label, word) ==
    CASE label \in {"EXTREME - Mega-tsunami expected"} -> word = "EXTREME"
      [] label \in {"HIGH - Major tsunami likely"} -> word = "HIGH"
      [] label \in {"MODERATE - Local tsunami possible",
                    "MODERATE - Vulnerable to flooding"} -> word = "MODERATE"
      [] label \in {"LOW - Inland location", "VERY LOW - Elevated terrain"} -> word = "LOW"
      [] OTHER -> FALSE

\* riskmodel.ts:287-290 and 301-304
tierOfLabel(label) ==
    IF Includes(label, "EXTREME") THEN "EXTREME"
    ELSE IF Includes(label, "HIGH") THEN "HIGH"
    ELSE IF Includes(label, "MODERATE") THEN "MODERATE"
    ELSE IF Includes(label, "LOW") THEN "LOW"
    ELSE "NEGLIGIBLE"

(***************************************************************************)
(* src/ui/riskModel.ts (src/src/ui/riskmodel.ts:1-144)                     *)
(* Latitudes and longitudes are in 1e-4 degrees, distances and radii in    *)
(* decametres, risks and probabilities in 1e-4; the returned risks are in  *)
(* hundredths, the resolution toFixed(2) leaves.                           *)
(***************************************************************************)

\* riskmodel.ts:4-8
FIXED_TARGET == [lat |-> 484284, lon |-> -1233656]

\* riskmodel.ts:11-21 for two points of one meridian, where a = sin^2(dLat/2)
\* and R * c = 6371 km * |dLat| * pi / 180 = 1.1119 dam per 1e-4 degree; the
\* calls of this model keep lon1 = lon2
haversineKm(lat1, lon1, lat2, lon2) == (Abs(lat2 - lat1) * 11119) \div 10000

\* the falloff with the smoothstep left uninverted: the risk rises with distance
sigmoidFalloffRising(distanceKm, innerKm, outerKm) ==
    IF outerKm <= innerKm THEN (IF distanceKm <= innerKm THEN 10000 ELSE 0)
    ELSE IF distanceKm <= innerKm THEN 10000
    ELSE LET t  == Min(10000, Max(0, ((distanceKm - innerKm) * 10000) \div (outerKm - innerKm)))
             t2 == (t * t) \div 10000
             t3 == (t2 * t) \div 10000
         IN Max(0, Min(10000, 3 * t2 - 2 * t3))

\* riskmodel.ts:46-52
sigmoidFalloff(distanceKm, innerKm, outerKm) ==
    IF outerKm <= innerKm THEN (IF distanceKm <= innerKm THEN 10000 ELSE 0)
    ELSE IF distanceKm <= innerKm THEN 10000
    ELSE LET t  == Min(10000, Max(0, ((distanceKm - innerKm) * 10000) \div (outerKm - innerKm)))
             t2 == (t * t) \div 10000
             t3 == (t2 * t) \div 10000
             s  == 10000 - (3 * t2 - 2 * t3)
         IN Max(0, Min(10000, s))

\* riskmodel.ts:54-59
seismicAngleModifier(angleDeg) ==
    IF IsNull(angleDeg) THEN 10000
    ELSE IF Val(angleDeg) < 20 THEN 8500
    ELSE IF Val(angleDeg) < 35 THEN 9300
    ELSE 10000

\* the modifier that takes every target for a coastal one
tsunamiCoastalModifierCoastal(isCoastal) == 10000

\* riskmodel.ts:61-63
tsunamiCoastalModifier(isCoastal) ==
    IF ~IsNull(isCoastal) /\ Val(isCoastal) THEN 10000 ELSE 1500

\* riskmodel.ts:65-70
tsunamiElevationModifier(elevationM) ==
    IF IsNull(elevationM) THEN 10000
    ELSE IF Val(elevationM) >= 50 THEN 2500
    ELSE IF Val(elevationM) >= 20 THEN 5000
    ELSE 10000

\* riskmodel.ts:95
clamp01(n) == Min(10000, Max(0, n))

\* riskmodel.ts:80-85: the inner radius of a hazard
innerRadius(outerKm) == Max(100, (45 * outerKm) \div 100)

\* riskmodel.ts:78-109: the risks assessLethality computes, before they are
\* rounded for the returned record
lethalityRisks(inputs, targetLat, targetLon) ==
    LET distanceKm == haversineKm(inputs.impactLat, inputs.impactLon, targetLat, targetLon)
        fall(km)   == sigmoidFalloff(distanceKm, innerRadius(km), km)
        blastRisk   == clamp01(fall(inputs.blastKm))
        seismicRisk == clamp01((fall(inputs.seismicKm)
                                  * seismicAngleModifier(inputs.approachAngleDeg)) \div 10000)
        tsunamiRisk == clamp01((((fall(inputs.tsunamiKm)
                                    * tsunamiCoastalModifier(inputs.targetIsCoastal)) \div 10000)
                                  * tsunamiElevationModifier(inputs.targetElevationM)) \div 10000)
        surviveAll  == ((((10000 - blastRisk) * (10000 - seismicRisk)) \div 10000)
                          * (10000 - tsunamiRisk)) \div 10000
        killProbability == clamp01(10000 - surviveAll)
        maxRisk == Max(blastRisk, Max(seismicRisk, tsunamiRisk))
    IN [distanceKm |-> distanceKm,
        blastRisk |-> blastRisk, seismicRisk |-> seismicRisk, tsunamiRisk |-> tsunamiRisk,
        killProbability |-> killProbability,
        dominantHazard |-> IF maxRisk > 0
                           THEN IF maxRisk = blastRisk THEN "blast"
                                ELSE IF maxRisk = seismicRisk THEN "seismic"
                                ELSE "tsunami"
                           ELSE "none",
        isLethal |-> killProbability >= 5000]

\* Number(r.toFixed(2)) of a risk, in hundredths. A product of the modifiers
\* that ends in 5 at the third decimal (0.15 * 0.5) is a double just below the
\* tie, so a tie rounds down
RiskToFixed(r) == (r + 49) \div 100

\* riskmodel.ts:72-124 (the rationale text is left out; distanceKm is carried
\* at the two decimals of line 115)
assessLethality(inputs, targetLat, targetLon) ==
    LET h == lethalityRisks(inputs, targetLat, targetLon)
    IN [distanceKm |-> h.distanceKm,
        blastRisk |-> RiskToFixed(h.blastRisk),
        seismicRisk |-> RiskToFixed(h.seismicRisk),
        tsunamiRisk |-> RiskToFixed(h.tsunamiRisk),
        dominantHazard |-> h.dominantHazard,
        killProbability |-> RiskToFixed(h.killProbability),
        isLethal |-> h.isLethal]

(***************************************************************************)
(* State                                                                   *)
(*   store  the zustand store                                              *)
(*   panel  the ImpactMap component's state                                *)
(*   quiz   the QuizMode component's state and its effect's locals         *)
(*   net    lookups in flight                                              *)
(*   call   the last call of a pure function: name, arguments, result      *)
(***************************************************************************)
MaxEls == 3

\* energies (milli-Mt) the functions are called with
FnEnergies == {-5000, 0, 1, 500, 2250, 50000, 105095, 202770, 1500000, 1000000000}

\* energies for which a whole analysis (crater and blast from the energy) is run
AnalysisEnergies == {0, 1, 2250, 105095, 202770, 1500000}

TsunamiRisks == {"EXTREME", "HIGH", "MODERATE", "LOW", "NEGLIGIBLE", "Unable to determine"}

RECURSIVE SeqsUpTo(_, _)
SeqsUpTo(S, n) ==
    IF n = 0 THEN {<<>>}
    ELSE LET shorter == SeqsUpTo(S, n - 1)
         IN shorter \cup {Append(q, x) : q \in shorter, x \in S}

\* the place-tag service's possible answers to one query
DensityOutcomes ==
    {[kind |-> "reject"], [kind |-> "badjson"], [kind |-> "malformed"],
     [kind |-> "noelements"]}
    \cup {[kind |-> "ok", elements |-> els] : els \in SeqsUpTo(PlaceValues, MaxEls)}

\* riskmodel.ts:205-212: the state a freshly mounted ImpactMap starts from (the
\* display-only environmentalEffects and earthquakeMagnitude are left out)
PanelFresh ==
    [mounted |-> TRUE, elevation |-> Null, terrainType |-> "Unknown",
     tsunamiRisk |-> "Calculating...", densityAssessment |-> Null,
     casualtyEstimate |-> Null]

PanelInit == [PanelFresh EXCEPT !.mounted = FALSE]

\* QuizLaunchPrompt.tsx:68-70: the state a freshly mounted QuizMode starts from
QuizFresh == [mounted |-> TRUE, questions |-> Null, picked |-> <<>>, submitted |-> FALSE]

QuizInit == [QuizFresh EXCEPT !.mounted = FALSE]

NetInit == [pending |-> {}]

Init ==
    /\ store = StoreInit
    /\ panel = PanelInit
    /\ quiz = QuizInit
    /\ net = NetInit
    /\ call = [fn |-> "none"]

(***************************************************************************)
(* Calls of the pure functions: one call per behaviour, its arguments      *)
(* drawn from the bounded sets above                                       *)
(***************************************************************************)
CallAssessTsunami ==
    /\ call.fn = "none"
    /\ \E resp \in ElevationOutcomes, E \in FnEnergies :
          call' = [fn |-> "assessTsunami", resp |-> resp, energyTNT |-> E,
                   out |-> assessTsunami(resp, E, craterOf(Fin(E)).v)]
    /\ UNCHANGED <<store, panel, quiz, net>>

CallAssessPopulationDensity ==
    /\ call.fn = "none"
    /\ \E resp \in DensityOutcomes, terrain \in TerrainKinds :
          call' = [fn |-> "assessPopulationDensity", resp |-> resp, terrain |-> terrain,
                   out |-> assessPopulationDensity(resp, terrain)]
    /\ UNCHANGED <<store, panel, quiz, net>>

CallEstimateCasualties ==
    /\ call.fn = "none"
    /\ \E E \in FnEnergies, c \in {-100, 0, 4, 157, 566, 705},
          d \in {-80, 0, 80, 150, 5000}, risk \in TsunamiRisks :
          LET p == [energyTNT |-> E, craterKm |-> c, blastRadiusKm |-> (5 * c) \div 2,
                    densityPkm2 |-> d, tsunamiRisk |-> risk]
          IN call' = [fn |-> "estimateCasualties", p |-> p, out |-> estimateCasualties(p)]
    /\ UNCHANGED <<store, panel, quiz, net>>

CallBuildTsunamiQuestion ==
    /\ call.fn = "none"
    /\ \E resp \in ElevationOutcomes, E \in FnEnergies, order \in Perms4 :
          LET a == assessTsunami(resp, E, craterOf(Fin(E)).v)
          IN call' = [fn |-> "buildTsunamiQuestion", a |-> a, order |-> order,
                      out |-> buildTsunamiQuestion(a, order)]
    /\ UNCHANGED <<store, panel, quiz, net>>

\* arguments of buildCasualtyQuestion: what QuizMode passes (QuizLaunchPrompt.tsx:84-93)
\* and estimates around one person, where the option bumping of line 165 acts
PipelineCasualties ==
    { quizCasualty(assessTsunami(eresp, E, craterOf(Fin(E)).v),
                   assessPopulationDensity(dresp, assessTsunami(eresp, E, craterOf(Fin(E)).v).terrain),
                   E, craterOf(Fin(E)).v) :
        eresp \in ElevationOutcomes, E \in AnalysisEnergies,
        dresp \in {[kind |-> "reject"], [kind |-> "ok", elements |-> <<"hamlet">>],
                   [kind |-> "ok", elements |-> <<"village", "city">>]} }

SmallCasualties ==
    { [density |-> [densityPkm2 |-> 150, category |-> "rural", source |-> "terrain-fallback",
                    note |-> "Overpass query failed"],
       areaKm2 |-> 314, fatalityRate |-> 3000, casualties |-> c] :
        c \in {40, 100, 250, 99960, 120000000} }

CallBuildCasualtyQuestion ==
    /\ call.fn = "none"
    /\ \E cas \in PipelineCasualties \cup SmallCasualties, order \in Perms4 :
          call' = [fn |-> "buildCasualtyQuestion", args |-> cas, order |-> order,
                   out |-> buildCasualtyQuestion(cas, order)]
    /\ UNCHANGED <<store, panel, quiz, net>>

CallBuildThermalQuestion ==
    /\ call.fn = "none"
    /\ \E E \in FnEnergies, order \in Perms4 :
          call' = [fn |-> "buildThermalQuestion", energyTNT |-> E, order |-> order,
                   out |-> buildThermalQuestion(E, order)]
    /\ UNCHANGED <<store, panel, quiz, net>>

CallBuildSeismicQuestion ==
    /\ call.fn = "none"
    /\ \E E \in FnEnergies, order \in Perms4, draw \in {-6, 0, 6} :
          call' = [fn |-> "buildSeismicQuestion", energyTNT |-> E, order |-> order,
                   out |-> buildSeismicQuestion(E, order, draw)]
    /\ UNCHANGED <<store, panel, quiz, net>>

CallBuildEnergyClassQuestion ==
    /\ call.fn = "none"
    /\ \E E \in FnEnergies :
          call' = [fn |-> "buildEnergyClassQuestion", energyTNT |-> E,
                   out |-> buildEnergyClassQuestion(E)]
    /\ UNCHANGED <<store, panel, quiz, net>>

\* estimateCasualties with an energy or a density that is not a finite number
CallEstimateCasualtiesOf ==
    /\ call.fn = "none"
    /\ \E E \in {NaN, Inf(1), Inf(-1), Fin(105095)},
          d \in {NaN, Inf(1), Inf(-1), Fin(0), Fin(150)},
          c \in {0, 566}, risk \in {"NEGLIGIBLE", "EXTREME"} :
          LET p == [energyTNT |-> E, craterKm |-> c, blastRadiusKm |-> (5 * c) \div 2,
                    densityPkm2 |-> d, tsunamiRisk |-> risk]
          IN call' = [fn |-> "estimateCasualtiesOf", p |-> p, out |-> estimateCasualtiesOf(p)]
    /\ UNCHANGED <<store, panel, quiz, net>>

\* elevations (m) and energies for which the panel's own risk label is computed
PanelTierElevations == {-3000, -150, 0, 5, 50, 200, 600}

\* riskmodel.ts:316-397 with the tier lines 287-290 / 301-304 read from the label
CallAnalyzeEnvironmentalEffects ==
    /\ call.fn = "none"
    /\ \E elev \in PanelTierElevations, E \in AnalysisEnergies :
          LET out == analyzeEnvironmentalEffects(elev, E)
          IN call' = [fn |-> "analyzeEnvironmentalEffects", elevation |-> elev,
                      energyTNT |-> E, craterKm |-> craterOf(Fin(E)).v, out |-> out,
                      tier |-> tierOfLabel(out.tsunamiRisk)]
    /\ UNCHANGED <<store, panel, quiz, net>>

\* offsets (1e-4 degrees of latitude) of the impact from the target: on it,
\* 0.7 km, 1.6 km, 72.6 km, 97.8 km and 100.07 km away
LatOffsets == {0, 63, 144, 6530, 8800, 9000}

LethalityInputs ==
    [impactLat : {FIXED_TARGET.lat + off : off \in LatOffsets},
     impactLon : {FIXED_TARGET.lon},
     blastKm : {0, 50, 150, 10000},
     seismicKm : {0, 10000, 20000},
     tsunamiKm : {0, 10000},
     approachAngleDeg : {Null, Some(15), Some(30), Some(45)},
     targetElevationM : {Null, Some(10), Some(20), Some(50)},
     targetIsCoastal : {Null, Some(TRUE), Some(FALSE)}]

CallAssessLethality ==
    /\ call.fn = "none"
    /\ \E inputs \in LethalityInputs :
          call' = [fn |-> "assessLethality", inputs |-> inputs,
                   out |-> assessLethality(inputs, FIXED_TARGET.lat, FIXED_TARGET.lon)]
    /\ UNCHANGED <<store, panel, quiz, net>>

\* sizes (m), densities (kg/m3) and speeds (km/s) of the presets, the ranges
\* the interface offers
EnergySizes == {40, 120, 200, 350}

EnergyDensities == {2500, 3000, 3200, 7800}

EnergySpeeds == {15, 18, 25, 28, 30}

EnergyInputs == EnergySizes \X EnergyDensities \X EnergySpeeds

\* useSimStore.ts:18-25: estimateEnergyMtTNT at lo and at hi, which is lo with
\* exactly one of its three parameters raised
CallEstimateEnergy ==
    /\ call.fn = "none"
    /\ \E lo \in EnergyInputs, hi \in EnergyInputs :
          /\ \E i \in 1..3 : hi[i] > lo[i] /\ \A j \in (1..3) \ {i} : hi[j] = lo[j]
          /\ call' = [fn |-> "estimateEnergyMtTNT", lo |-> lo, hi |-> hi,
                      outLo |-> estimateEnergyMtTNT(Fin(lo[1]), Fin(lo[2]), Fin(lo[3])),
                      outHi |-> estimateEnergyMtTNT(Fin(hi[1]), Fin(hi[2]), Fin(hi[3]))]
    /\ UNCHANGED <<store, panel, quiz, net>>

NextFn ==
    \/ CallAssessTsunami
    \/ CallAssessPopulationDensity
    \/ CallEstimateCasualties
    \/ CallBuildTsunamiQuestion
    \/ CallBuildCasualtyQuestion
    \/ CallBuildThermalQuestion
    \/ CallBuildSeismicQuestion
    \/ CallBuildEnergyClassQuestion
    \/ CallAnalyzeEnvironmentalEffects
    \/ CallAssessLethality
    \/ CallEstimateCasualtiesOf
    \/ CallEstimateEnergy

SpecFn == Init /\ [][NextFn]_vars

(***************************************************************************)
(* src/ui/ImpactMap.tsx (src/src/ui/riskmodel.ts:146-661)                  *)
(* A lookup in flight is a record of net.pending holding what its effect's *)
(* closure captured; live is FALSE once the component instance that issued *)
(* it is unmounted, whose state setters React then ignores. State updates  *)
(* made by one callback are committed in one render (automatic batching),  *)
(* and the effects of a render run with it.                                *)
(***************************************************************************)
MaxPending == 2

\* impact points the frame loop can report, with the elevation (m) the
\* elevation service holds for each
ImpactPoints == {<<41, -76>>, <<10, 70>>, <<54, 3>>}

ElevationAt(loc) ==
    CASE loc = <<41, -76>> -> 200
      [] loc = <<10, 70>> -> -3000
      [] loc = <<54, 3>> -> -40

\* outcomes of the panel's elevation fetch: an exception (fetch rejects, the
\* body is not JSON or is null), a body without results[0], a usable result
PanelElevationOutcomes == {"throw", "noresults", "ok"}

PanelDensityOutcomes ==
    {[kind |-> "reject"], [kind |-> "ok", elements |-> <<"town">>]}

ImpactLoc(st) == <<st.impactLat, st.impactLon>>

\* riskmodel.ts:216-237: the lookup the elevation effect starts; the closure
\* holds the render's location and, through analyzeEnvironmentalEffects,
\* its energyTNT
ElevationRequest(st) ==
    [kind |-> "elevation", by |-> "panel", live |-> TRUE, loc |-> ImpactLoc(st),
     energyTNT |-> st.readouts.energyTNT.v]

\* riskmodel.ts:247-253: the terrain calculateCasualties derives from the
\* (non-null) elevation it holds
panelTerrain(elevation) ==
    IF elevation < 0 THEN "Ocean/Sea"
    ELSE IF elevation < 10 THEN "Coastal/Low-lying"
    ELSE IF elevation < 100 THEN "Plains/Valley"
    ELSE IF elevation < 500 THEN "Hills/Plateau"
    ELSE "Mountains"

\* riskmodel.ts:242: the guard of calculateCasualties
casualtiesGuard(ps) ==
    ~(IsNull(ps.elevation) \/ ps.tsunamiRisk = "Calculating..."
      \/ ps.tsunamiRisk = "Unable to determine")

\* riskmodel.ts:248-256: the lookup calculateCasualties starts; the closure
\* holds the render's location, readouts, elevation and tsunamiRisk
DensityRequest(st, ps) ==
    [kind |-> "density", by |-> "panel", live |-> TRUE, loc |-> ImpactLoc(st),
     terrain |-> panelTerrain(Val(ps.elevation)), elevation |-> Val(ps.elevation),
     energyTNT |-> st.readouts.energyTNT.v, craterKm |-> st.readouts.craterKm.v,
     tsunamiRisk |-> ps.tsunamiRisk]

\* riskmodel.ts:237: the dependencies of the elevation effect
fetchDeps(st) == ImpactLoc(st)

\* riskmodel.ts:314: the dependencies of the casualty effect (blastRadiusKm
\* is craterKm * 2.5)
casualtyDeps(st, ps) ==
    <<ImpactLoc(st), st.readouts.energyTNT, st.readouts.craterKm, ps.elevation, ps.tsunamiRisk>>

\* riskmodel.ts:274-279: the estimate set for an ocean impact out of reach of land
oceanEstimate(density, craterKm) ==
    LET blastRadiusKm == (5 * craterKm) \div 2
        r == craterKm \div 2 + (6 * blastRadiusKm) \div 10
    IN [density |-> density, areaKm2 |-> MulDiv(r * r, 355, 113),
        fatalityRate |-> 0, casualties |-> 0]

\* riskmodel.ts:256-307: what calculateCasualties sets once the density
\* lookup r has answered resp
casualtiesOutcome(r, resp) ==
    LET d       == assessPopulationDensity(resp, r.terrain)
        density == [densityPkm2 |-> d.densityPkm2, category |-> d.category,
                    source |-> d.source, note |-> d.note]
        blastRadiusKm   == (5 * r.craterKm) \div 2
        seismicRadiusKm == 15 * r.craterKm
        estimate == estimateCasualties([energyTNT |-> r.energyTNT, craterKm |-> r.craterKm,
                                        blastRadiusKm |-> blastRadiusKm,
                                        densityPkm2 |-> density.densityPkm2,
                                        tsunamiRisk |-> tierOfLabel(r.tsunamiRisk)])
    IN [densityAssessment |-> Some(density),
        casualtyEstimate |->
            Some(IF r.terrain = "Ocean/Sea" /\ (r.elevation < -1000 \/ seismicRadiusKm < 10000)
                 THEN oceanEstimate(density, r.craterKm)
                 ELSE estimate)]

\* unmounting an instance: React ignores its later state updates
Orphan(pend, who) ==
    {IF r.by = who THEN [r EXCEPT !.live = FALSE] ELSE r : r \in pend}

\* unnamed/part_002:52 and riskmodel.ts:216-314: one commit of the app after
\* the store became st and the mounted panel's state ps, with pend in flight:
\* ImpactMap is mounted while showImpactMap holds, and each effect runs on
\* mount and whenever one of its dependencies changed
RenderPanel(st, ps, pend) ==
    IF ~st.showImpactMap THEN
        [panel |-> PanelInit,
         pending |-> IF panel.mounted THEN Orphan(pend, "panel") ELSE pend]
    ELSE IF ~panel.mounted THEN
        [panel |-> PanelFresh, pending |-> pend \cup {ElevationRequest(st)}]
    ELSE
        LET fetch == IF fetchDeps(st) # fetchDeps(store)
                     THEN {ElevationRequest(st)} ELSE {}
            cas   == IF casualtyDeps(st, ps) # casualtyDeps(store, panel) /\ casualtiesGuard(ps)
                     THEN {DensityRequest(st, ps)} ELSE {}
        IN [panel |-> ps, pending |-> pend \cup fetch \cup cas]

\* unnamed/part_002:53 and QuizLaunchPrompt.tsx:73-139: QuizMode is mounted
\* while quizVisible holds; its effect runs once, on mount, and starts the
\* question build with the values of that render; its cleanup clears alive
QuizBuildRequest(st) ==
    [kind |-> "tsunami", by |-> "quiz", live |-> TRUE, loc |-> ImpactLoc(st),
     energyTNT |-> st.readouts.energyTNT.v, craterKm |-> st.readouts.craterKm.v]

RenderQuiz(st, qs, pend) ==
    IF ~st.quizVisible THEN
        [quiz |-> QuizInit,
         pending |-> IF quiz.mounted THEN Orphan(pend, "quiz") ELSE pend]
    ELSE IF ~quiz.mounted THEN
        [quiz |-> QuizFresh, pending |-> pend \cup {QuizBuildRequest(st)}]
    ELSE [quiz |-> qs, pending |-> pend]

\* the store becomes st, the panel's state ps, the quiz's state qs, and the
\* app re-renders
Commit(st, ps, qs, pend) ==
    LET rp == RenderPanel(st, ps, pend)
        rq == RenderQuiz(st, qs, rp.pending)
    IN /\ store' = st
       /\ panel' = rp.panel
       /\ quiz' = rq.quiz
       /\ net' = [pending |-> rq.pending]
       /\ Cardinality(rq.pending) <= MaxPending

(***************************************************************************)
(* The store's parameter setters, called with any number                   *)
(***************************************************************************)
\* arguments of setSize, setSpeed, setDensity: valid values, and values that
\* violate the precondition (negative, NaN, +-Infinity)
SizeArgs == {Fin(-120), Fin(0), Fin(40), NaN, Inf(-1)}

SpeedArgs == {Fin(-20), Fin(0), Fin(18), NaN, Inf(1)}

DensityArgs == {Fin(-3000), Fin(0), Fin(3000), NaN, Inf(1)}

PresetIds == {"tiny", "small", "med", "large", "iron", "none"}

NasaData ==
    {Null,
     Some([sizeMin |-> 4, sizeMax |-> 6, kmPerSecond |-> 0, inclinationDegrees |-> 0]),
     Some([sizeMin |-> 200, sizeMax |-> 400, kmPerSecond |-> 3, inclinationDegrees |-> 120]),
     Some([sizeMin |-> 250, sizeMax |-> 350, kmPerSecond |-> 200, inclinationDegrees |-> 20])}

SetSize ==
    /\ \E v \in SizeArgs : Commit(setSizeState(store, v), panel, quiz, net.pending)
    /\ UNCHANGED call

SetSpeed ==
    /\ \E v \in SpeedArgs : Commit(setSpeedState(store, v), panel, quiz, net.pending)
    /\ UNCHANGED call

SetDensity ==
    /\ \E v \in DensityArgs : Commit(setDensityState(store, v), panel, quiz, net.pending)
    /\ UNCHANGED call

SelectPresetOf(ids) ==
    /\ \E id \in ids : Commit(selectPresetState(store, id), panel, quiz, net.pending)
    /\ UNCHANGED call

SelectPreset == SelectPresetOf(PresetIds)

SetNasaAsteroidData ==
    /\ \E data \in NasaData : Commit(setNasaAsteroidDataState(store, data), panel, quiz, net.pending)
    /\ UNCHANGED call

ClearNasaData ==
    /\ Commit(clearNasaDataState(store), panel, quiz, net.pending)
    /\ UNCHANGED call

\* the (key, value) pairs setParam is called with
ParamCalls ==
    {<<"size", Fin(300)>>, <<"speed", NaN>>, <<"density", Fin(2500)>>,
     <<"approachAngle", Fin(60)>>, <<"leadTime", Fin(1)>>}

SetParam ==
    /\ \E c \in ParamCalls : Commit(setParamState(store, c[1], c[2]), panel, quiz, net.pending)
    /\ UNCHANGED call

NextStore ==
    \/ SetSize
    \/ SetSpeed
    \/ SetDensity
    \/ SelectPreset
    \/ SetNasaAsteroidData
    \/ ClearNasaData
    \/ SetParam

SpecStore == Init /\ [][NextStore]_vars

(***************************************************************************)
(* The impact-analysis panel: opening, closing, the frame loop moving the  *)
(* impact point, parameter changes under the open panel, and the lookups'  *)
(* answers arriving in any order                                           *)
(***************************************************************************)
\* useSimStore.ts:278
resetState(st) ==
    [st EXCEPT !.running = FALSE, !.time = 0, !.hasImpacted = FALSE,
               !.showImpactMap = FALSE, !.quizVisible = FALSE, !.isShaking = FALSE,
               !.shakeIntensity = 0, !.hasShaken = FALSE]

\* useSimStore.ts:309-313 for a finite v (ms)
setTimeState(st, v) == [st EXCEPT !.time = Max(0, Min(st.duration, v))]

\* useSimStore.ts:362 (ControlPanel.tsx:82)
ShowImpactAnalysis ==
    /\ Commit([store EXCEPT !.showImpactMap = TRUE], panel, quiz, net.pending)
    /\ UNCHANGED call

\* riskmodel.ts:175-182
HandleClose ==
    /\ panel.mounted
    /\ Commit([setTimeState(store, store.duration - 100) EXCEPT !.showImpactMap = FALSE],
              panel, quiz, net.pending)
    /\ UNCHANGED call

\* riskmodel.ts:184-189
HandleReturnToSimulation ==
    /\ panel.mounted
    /\ Commit(resetState(store), panel, quiz, net.pending)
    /\ UNCHANGED call

\* Starfield.tsx:169-176: the frame callback reports the impact point that
\* simplePathAtTime gives for the current time, approach angle, mitigation
\* and target
SetImpactLatLon ==
    /\ \E loc \in ImpactPoints :
          Commit([store EXCEPT !.impactLat = loc[1], !.impactLon = loc[2]], panel, quiz, net.pending)
    /\ UNCHANGED call

PanelSelectPreset == SelectPresetOf({"tiny", "med"})

\* riskmodel.ts:219-233: the elevation lookup r answers
ElevationResponds ==
    /\ \E r \in net.pending, o \in PanelElevationOutcomes :
          /\ r.kind = "elevation"
          /\ r.by = "panel"
          /\ LET a  == analyzeEnvironmentalEffects(ElevationAt(r.loc), r.energyTNT)
                 ps == IF ~r.live \/ o = "noresults" THEN panel
                       ELSE IF o = "throw"
                       THEN [panel EXCEPT !.elevation = Null,
                                          !.terrainType = "Data unavailable",
                                          !.tsunamiRisk = "Unable to determine"]
                       ELSE [panel EXCEPT !.elevation = Some(ElevationAt(r.loc)),
                                          !.terrainType = a.terrainType,
                                          !.tsunamiRisk = a.tsunamiRisk]
             IN Commit(store, ps, quiz, net.pending \ {r})
    /\ UNCHANGED call

\* riskmodel.ts:256-307: the density lookup r answers
DensityResponds ==
    /\ \E r \in net.pending, resp \in PanelDensityOutcomes :
          /\ r.kind = "density"
          /\ r.by = "panel"
          /\ LET out == casualtiesOutcome(r, resp)
                 ps  == IF ~r.live THEN panel
                        ELSE [panel EXCEPT !.densityAssessment = out.densityAssessment,
                                           !.casualtyEstimate = out.casualtyEstimate]
             IN Commit(store, ps, quiz, net.pending \ {r})
    /\ UNCHANGED call

NextPanel ==
    \/ ShowImpactAnalysis
    \/ HandleClose
    \/ HandleReturnToSimulation
    \/ SetImpactLatLon
    \/ PanelSelectPreset
    \/ ElevationResponds
    \/ DensityResponds

SpecPanel == Init /\ [][NextPanel]_vars

\* riskmodel.ts:219-220: an elevation lookup in flight is answered in the end -
\* fetch settles, with a response or with an error
SpecPanelFair == SpecPanel /\ WF_vars(ElevationResponds)

(***************************************************************************)
(* Quiz mode: the flight stops at the quiz point, QuizMode builds its      *)
(* questions from two lookups in sequence, and the quiz is answered,       *)
(* resumed or reset                                                        *)
(***************************************************************************)
\* frame intervals (ms) of the tick loop, and the time (ms) since the shake began
TickDts == {4800, 5200}

ShakeElapsed == {1500, 3000}

\* a shake at every arrival at the impact, shaken before or not
shakeStartsAgain(st, newHasImpacted) == newHasImpacted /\ ~st.hasImpacted

\* useSimStore.ts:249: the impact is reached, for the first time since
\* hasShaken was cleared
shakeStarts(st, newHasImpacted) == newHasImpacted /\ ~st.hasImpacted /\ ~st.hasShaken

\* a Launch/Pause button that works under the open impact map too
toggleRunAlways(st) == [st EXCEPT !.running = ~st.running]

\* a resume that steps back from the stop point
resumeFromQuizRewinding(st) ==
    [st EXCEPT !.quizVisible = FALSE, !.running = TRUE, !.time = Max(0, st.time - 100)]

\* useSimStore.ts:216-263 for a finite dt >= 0; elapsed is
\* performance.now() - shakeStartTime
tickState(st, dt, elapsed) ==
    IF ~st.running \/ st.showImpactMap \/ st.quizVisible THEN st
    ELSE LET durSafe == IF st.duration > 0 THEN st.duration ELSE 10000
             t       == Min(durSafe, st.time + dt)
             stopAt  == (Min(999, Max(0, st.quizStopT)) * durSafe) \div 1000
         IN IF st.mode = "quiz" /\ st.time < stopAt /\ t >= stopAt
            THEN [st EXCEPT !.time = stopAt, !.running = FALSE, !.quizVisible = TRUE]
            ELSE LET newHasImpacted == t >= durSafe
                     shake ==
                        IF shakeStarts(st, newHasImpacted)
                        THEN [st EXCEPT !.isShaking = TRUE, !.shakeIntensity = 1000,
                                        !.hasShaken = TRUE]
                        ELSE IF st.isShaking
                        THEN IF elapsed >= 3000
                             THEN [st EXCEPT !.isShaking = FALSE, !.shakeIntensity = 0]
                             ELSE [st EXCEPT !.shakeIntensity =
                                                Max(0, 1000 - (elapsed * elapsed) \div 9000)]
                        ELSE st
                 IN [shake EXCEPT !.time = t, !.hasImpacted = newHasImpacted]

\* useSimStore.ts:376-380
toggleRunState(st) ==
    IF st.showImpactMap \/ st.quizVisible THEN st ELSE [st EXCEPT !.running = ~st.running]

\* useSimStore.ts:369-372
resumeFromQuizState(st) == [st EXCEPT !.quizVisible = FALSE, !.running = TRUE]

\* QuizLaunchPrompt.tsx:39-51
STATIC_QUESTION ==
    [q |-> "earth-radius",
     choices |-> <<"1,000 km", "6,371 km", "12,742 km", "25,000 km">>,
     explanations |-> <<"too-small", "correct", "diameter", "too-large">>,
     answer |-> 1]

\* the shuffles and the three-question picks Math.random can produce, a few of them
QuizOrders == {<<1, 2, 3, 4>>, <<3, 1, 2, 4>>}

QuizPicks ==
    {<<"static", "tsunami", "casualty">>, <<"casualty", "thermal", "energy">>,
     <<"seismic", "tsunami", "energy">>}

\* QuizLaunchPrompt.tsx:79-108: the pool built from tsu and dens, and the pick
quizQuestions(tsu, dens, energyTNT, craterKm, order, pick) ==
    LET cas  == quizCasualty(tsu, dens, energyTNT, craterKm)
        pool == [static   |-> STATIC_QUESTION,
                 tsunami  |-> buildTsunamiQuestion(tsu, order),
                 casualty |-> buildCasualtyQuestion(cas, order),
                 thermal  |-> buildThermalQuestion(energyTNT, order),
                 seismic  |-> buildSeismicQuestion(energyTNT, order, 0),
                 energy   |-> buildEnergyClassQuestion(energyTNT)]
    IN [i \in 1..3 |-> pool[pick[i]]]

\* a build that sets its questions whether or not its QuizMode is still mounted
buildEndsUnchecked(r, chosen) ==
    [quiz EXCEPT !.questions = Some(chosen), !.picked = <<-1, -1, -1>>]

\* QuizLaunchPrompt.tsx:110-112 and 114, 131-133: the end of build r, on the
\* success path and in the catch alike: nothing is set once alive is false
buildEnds(r, chosen) ==
    IF ~r.live THEN quiz
    ELSE [quiz EXCEPT !.questions = Some(chosen), !.picked = <<-1, -1, -1>>]

\* QuizLaunchPrompt.tsx:116-130
FALLBACK_QUESTION ==
    [q |-> "casualty-factor",
     choices |-> <<"Impact energy", "Population density", "Local terrain/elevation",
                   "All of the above">>,
     explanations |-> <<"energy-not-alone", "density-not-alone", "terrain-not-alone",
                        "correct">>,
     answer |-> 3]

\* the orders pickRandom can give the three fallback questions, two of them
FallbackOrders == {<<1, 2, 3>>, <<3, 1, 2>>}

\* QuizLaunchPrompt.tsx:115-131
fallbackQuestions(energyTNT, order) ==
    LET fallback == <<STATIC_QUESTION, FALLBACK_QUESTION, buildEnergyClassQuestion(energyTNT)>>
    IN [i \in 1..3 |-> fallback[order[i]]]

\* unnamed/part_002:75-79 (TopBar)
SetMode ==
    /\ \E m \in {"scenario", "quiz"} : Commit([store EXCEPT !.mode = m], panel, quiz, net.pending)
    /\ UNCHANGED call

\* ControlPanel.tsx:70
ToggleRun ==
    /\ Commit(toggleRunState(store), panel, quiz, net.pending)
    /\ UNCHANGED call

\* ControlPanel.tsx: the requestAnimationFrame loop calling tick(dt)
Tick ==
    /\ \E dt \in TickDts, elapsed \in ShakeElapsed :
          Commit(tickState(store, dt, elapsed), panel, quiz, net.pending)
    /\ UNCHANGED call

\* ControlPanel.tsx:73
Reset ==
    /\ Commit(resetState(store), panel, quiz, net.pending)
    /\ UNCHANGED call

\* QuizLaunchPrompt.tsx:78-82: the elevation lookup inside assessTsunami
\* answers; the build goes on to the density lookup, unmounted or not
QuizTsunamiResponds ==
    /\ \E r \in net.pending, o \in PanelElevationOutcomes :
          /\ r.kind = "tsunami"
          /\ r.by = "quiz"
          /\ LET resp == CASE o = "throw" -> [kind |-> "reject"]
                           [] o = "noresults" -> [kind |-> "noresults"]
                           [] o = "ok" -> [kind |-> "ok", elevation |-> ElevationAt(r.loc)]
                 tsu  == assessTsunami(resp, r.energyTNT, r.craterKm)
                 next == [kind |-> "density", by |-> "quiz", live |-> r.live, loc |-> r.loc,
                          energyTNT |-> r.energyTNT, craterKm |-> r.craterKm, tsu |-> tsu]
             IN Commit(store, panel, quiz, (net.pending \ {r}) \cup {next})
    /\ UNCHANGED call

\* QuizLaunchPrompt.tsx:82-112: the density lookup answers and the build ends
QuizDensityResponds ==
    /\ \E r \in net.pending, resp \in PanelDensityOutcomes, order \in QuizOrders,
          pick \in QuizPicks :
          /\ r.kind = "density"
          /\ r.by = "quiz"
          /\ LET d    == assessPopulationDensity(resp, r.tsu.terrain)
                 dens == [densityPkm2 |-> d.densityPkm2, category |-> d.category,
                          source |-> d.source, note |-> d.note]
                 qs   == buildEnds(r, quizQuestions(r.tsu, dens, r.energyTNT, r.craterKm,
                                                    order, pick))
             IN /\ Commit(store, panel, qs, net.pending \ {r})
                /\ call' = [fn |-> "QuizMode", live |-> r.live, dens |-> dens,
                            cas |-> quizCasualty(r.tsu, dens, r.energyTNT, r.craterKm)]

\* QuizLaunchPrompt.tsx:113-133: the try block throws while the build waits for
\* a lookup or assembles the pool, and the build ends in the catch
QuizBuildThrows ==
    /\ \E r \in net.pending, order \in FallbackOrders :
          /\ r.by = "quiz"
          /\ Commit(store, panel, buildEnds(r, fallbackQuestions(r.energyTNT, order)),
                    net.pending \ {r})
          /\ call' = [fn |-> "QuizMode.catch", live |-> r.live]

\* QuizLaunchPrompt.tsx:206-208: a choice of question qi is clicked
Pick ==
    /\ quiz.mounted
    /\ ~IsNull(quiz.questions)
    /\ ~quiz.submitted
    /\ \E qi \in 1..3, ci \in {0} :
          Commit(store, panel, [quiz EXCEPT !.picked[qi] = ci], net.pending)
    /\ UNCHANGED call

\* QuizLaunchPrompt.tsx:257-260
Submit ==
    /\ quiz.mounted
    /\ ~IsNull(quiz.questions)
    /\ ~quiz.submitted
    /\ \A i \in 1..Len(quiz.picked) : quiz.picked[i] # -1
    /\ Commit(store, panel, [quiz EXCEPT !.submitted = TRUE], net.pending)
    /\ UNCHANGED call

\* QuizLaunchPrompt.tsx:270-273
Retry ==
    /\ quiz.mounted
    /\ quiz.submitted
    /\ Commit(store, panel, [quiz EXCEPT !.submitted = FALSE, !.picked = <<-1, -1, -1>>],
              net.pending)
    /\ UNCHANGED call

\* QuizLaunchPrompt.tsx:276-279
ResumeFromQuiz ==
    /\ quiz.mounted
    /\ quiz.submitted
    /\ Commit(resumeFromQuizState(store), panel, quiz, net.pending)
    /\ UNCHANGED call

NextQuiz ==
    \/ SetMode
    \/ ToggleRun
    \/ Tick
    \/ Reset
    \/ SetImpactLatLon
    \/ QuizTsunamiResponds
    \/ QuizDensityResponds
    \/ QuizBuildThrows
    \/ Pick
    \/ Submit
    \/ Retry
    \/ ResumeFromQuiz

SpecQuiz == Init /\ [][NextQuiz]_vars

(***************************************************************************)
(* The store by itself: the operations it exports, called in any order by  *)
(* the interface and by any other client, with any argument. The state of  *)
(* the components that render from the store is the subject of the         *)
(* specifications above and is left as it is here.                         *)
(***************************************************************************)
others == <<panel, quiz, net, call>>

\* arguments of tick: frame intervals (ms), and a dt that is not finite
StoreDts == {Fin(4800), Fin(5200), Inf(1)}

\* useSimStore.ts:225: dtSafe
dtSafeOf(dt) == IF dt.k = "fin" THEN dt.v ELSE 0

\* ControlPanel.tsx:12-24: the frame loop calls tick(dt)
StoreTick ==
    /\ \E dt \in StoreDts, elapsed \in ShakeElapsed :
          store' = tickState(store, dtSafeOf(dt), elapsed)
    /\ UNCHANGED others

\* ControlPanel.tsx:70: Launch / Pause
StoreToggleRun ==
    /\ store' = toggleRunState(store)
    /\ UNCHANGED others

\* ControlPanel.tsx:73: Reset
StoreReset ==
    /\ store' = resetState(store)
    /\ UNCHANGED others

\* ControlPanel.tsx:82: Show Impact Analysis
StoreShowImpactAnalysis ==
    /\ store' = [store EXCEPT !.showImpactMap = TRUE]
    /\ UNCHANGED others

\* riskmodel.ts:175-182: Continue Simulation, on the open impact map
StoreHandleClose ==
    /\ store.showImpactMap
    /\ store' = [setTimeState(store, store.duration - 100) EXCEPT !.showImpactMap = FALSE]
    /\ UNCHANGED others

\* QuizLaunchPrompt.tsx:276-279: Continue, on the open quiz
StoreResumeFromQuiz ==
    /\ store.quizVisible
    /\ store' = resumeFromQuizState(store)
    /\ UNCHANGED others

\* unnamed/part_002:75-79 (TopBar)
StoreSetMode ==
    /\ \E m \in {"scenario", "quiz"} : store' = [store EXCEPT !.mode = m]
    /\ UNCHANGED others

\* useSimStore.ts:267-271
Start ==
    /\ store' = IF store.showImpactMap \/ store.quizVisible THEN store
                ELSE [store EXCEPT !.running = TRUE]
    /\ UNCHANGED others

\* useSimStore.ts:272-277
Pause ==
    /\ store' = IF store.showImpactMap THEN store ELSE [store EXCEPT !.running = FALSE]
    /\ UNCHANGED others

\* useSimStore.ts:305
Hit ==
    /\ store' = [store EXCEPT !.time = 0, !.running = TRUE]
    /\ UNCHANGED others

\* arguments of setTime and setDuration (ms), finite or not
TimeArgs == {Fin(-1000), Fin(3000), Fin(20000), NaN, Inf(1)}

DurationArgs == {Fin(-1000), Fin(5000), NaN, Inf(1)}

\* useSimStore.ts:309-313
SetTime ==
    /\ \E v \in TimeArgs : store' = setTimeOf(store, v)
    /\ UNCHANGED others

\* useSimStore.ts:314
SetDuration ==
    /\ \E v \in DurationArgs : store' = setDurationState(store, v)
    /\ UNCHANGED others

\* a NASA record as the panel holds it once a search has answered
AppliedNasaData ==
    Some([sizeMin |-> 30, sizeMax |-> 50, kmPerSecond |-> 15, inclinationDegrees |-> 60])

\* useSimStore.ts:280-296
StoreSelectPreset ==
    /\ \E id \in {"tiny", "none"} : store' = selectPresetState(store, id)
    /\ UNCHANGED others

\* useSimStore.ts:320-343
StoreSetNasaAsteroidData ==
    /\ \E data \in {Null, AppliedNasaData} : store' = setNasaAsteroidDataState(store, data)
    /\ UNCHANGED others

NextSim ==
    \/ StoreTick
    \/ StoreToggleRun
    \/ StoreReset
    \/ StoreShowImpactAnalysis
    \/ StoreHandleClose
    \/ StoreResumeFromQuiz
    \/ StoreSetMode
    \/ Start
    \/ Pause
    \/ Hit
    \/ SetTime
    \/ SetDuration
    \/ StoreSelectPreset
    \/ StoreSetNasaAsteroidData

SpecSim == Init /\ [][NextSim]_vars

(***************************************************************************)
(* The store under the interface alone: the control panel, the globe, the  *)
(* NASA panel, the impact map, the quiz and the top bar, each under the    *)
(* guard its component applies, and the frame loop                         *)
(***************************************************************************)
\* ControlPanel.tsx:33
locked(st) == st.running \/ st.quizVisible

\* the inputs of the control panel, each with a value the user gives it
PanelInputs == {"preset", "size", "speed", "approachAngle", "density", "time"}

\* ControlPanel.tsx:47-66 and 101-160: every input is disabled while locked
ControlPanelInput ==
    /\ ~locked(store)
    /\ \E i \in PanelInputs :
          store' = CASE i = "preset" -> selectPresetState(store, "tiny")
                     [] i = "size" -> setSizeState(store, Fin(40))
                     [] i = "speed" -> setSpeedState(store, Fin(15))
                     [] i = "approachAngle" -> setApproachAngleState(store, Fin(60))
                     [] i = "density" -> setDensityState(store, Fin(2500))
                     [] i = "time" -> setTimeOf(store, Fin(3000))
    /\ UNCHANGED others

\* Globe.tsx:17-23, 64-77 and 113: a click on the globe sets the target
GlobeClick ==
    /\ ~(store.running \/ store.quizVisible \/ store.showImpactMap \/ store.hasImpacted)
    /\ store' = [store EXCEPT !.targetLat = 10, !.targetLon = 20, !.useTargetImpact = TRUE]
    /\ UNCHANGED others

\* unnamed/part_001:64-71 and 378-392: Apply Parameters, enabled whenever the
\* panel holds the record of a search
OnApply ==
    /\ store' = setNasaAsteroidDataState(store, AppliedNasaData)
    /\ UNCHANGED others

NextLock ==
    \/ StoreTick
    \/ StoreToggleRun
    \/ StoreReset
    \/ StoreShowImpactAnalysis
    \/ StoreHandleClose
    \/ StoreResumeFromQuiz
    \/ StoreSetMode
    \/ ControlPanelInput
    \/ GlobeClick
    \/ OnApply

SpecLock == Init /\ [][NextLock]_vars

(***************************************************************************)
(* Claims                                                                  *)
(***************************************************************************)
IsBuilderCall ==
    call.fn \in {"buildTsunamiQuestion", "buildCasualtyQuestion", "buildThermalQuestion",
                 "buildSeismicQuestion", "buildEnergyClassQuestion"}

WellShaped(q) ==
    /\ Len(q.choices) = 4
    /\ \A i, j \in 1..Len(q.choices) : i < j => q.choices[i] # q.choices[j]
    /\ Len(q.explanations) = 4
    /\ q.answer \in 0..3

\* C1: every question a quiz builder returns has exactly 4 pairwise-distinct
\* choices, exactly 4 explanations and an answer index in 0..3, the tsunami
\* builder's risk-only branch included.
C1_QuestionShape == IsBuilderCall => WellShaped(call.out)

\* C1, delimiting the failure: every question is well shaped except the
\* risk-only tsunami question built for a known risk.
C1_ShapeExceptRiskOnly ==
    (IsBuilderCall /\ ~(call.out.q = "tsunami-risk" /\ call.a.risk # "Unable to determine"))
        => WellShaped(call.out)

\* C2: in every shuffling builder and for every permutation drawn,
\* choices[answer] is the option rendered from the correct value re-derived
\* from the inputs and explanations[answer] is the correct option's explanation.
C2_AnswerFollowsShuffle ==
    LET q   == call.out
        ans == q.answer + 1
    IN /\ (call.fn = "buildTsunamiQuestion" /\ q.q = "tsunami-height") =>
             LET target == Max(1, Min(200, MathRound(Val(call.a.waveCoastM), 100)))
             IN /\ q.choices[ans] = <<call.a.risk, target>>
                /\ q.explanations[ans] = <<"correct", call.a.terrain, target>>
       /\ (call.fn = "buildCasualtyQuestion" /\ q.q = "casualty-toll") =>
             /\ q.choices[ans] = fmt(Max(1, MathRound(call.args.casualties, 100)))
             /\ q.explanations[ans][1] = "matches"
       /\ call.fn = "buildThermalQuestion" =>
             /\ q.choices[ans] = <<"km-radius", Max(1, MathRound(thermalRadius(call.energyTNT), 100))>>
             /\ q.explanations[ans][1] = "scales"
       /\ call.fn = "buildSeismicQuestion" =>
             /\ q.choices[ans] = <<"Magnitude", seismicCenter(call.energyTNT)>>
             /\ q.explanations[ans][1] = "uses"

\* C2 witness: a numeric casualty question shuffled by a permutation that is
\* not its own inverse, the correct option landing at index 2.
C2_Witness ==
    /\ call.fn = "buildCasualtyQuestion"
    /\ call.out.q = "casualty-toll"
    /\ call.order = <<3, 1, 2, 4>>
    /\ call.out.answer = 1

\* C5: assessTsunami never throws on an elevation-service failure (fetch
\* rejects, body not JSON, no results[0].elevation): it returns elevation
\* null, terrain Unknown, risk 'Unable to determine' and both waves null.
C5_ElevationFailureIsNull ==
    (call.fn = "assessTsunami" /\ call.resp.kind # "ok") =>
        /\ ~call.out.threw
        /\ IsNull(call.out.elevation)
        /\ call.out.terrain = "Unknown"
        /\ call.out.risk = "Unable to determine"
        /\ IsNull(call.out.waveDeepM)
        /\ IsNull(call.out.waveCoastM)

\* C5 witness: the body was not valid JSON and the assessment came back.
C5_Witness ==
    /\ call.fn = "assessTsunami"
    /\ call.resp.kind = "badjson"
    /\ call.out.risk = "Unable to determine"

NoKnownPlace(resp) ==
    \/ resp.kind # "ok"
    \/ \A i \in 1..Len(resp.elements) :
          resp.elements[i] \notin {"city", "suburb", "neighbourhood", "town", "village", "hamlet"}

C9_FatalityRateRange ==
    call.fn = "estimateCasualties" =>
        (call.out.fatalityRate >= 3000 /\ call.out.fatalityRate <= 90000)

\* C9 witness: the largest energy with an EXTREME tsunami, where the final
\* clamp binds at 0.9.
C9_Witness ==
    /\ call.fn = "estimateCasualties"
    /\ call.p.energyTNT = 1000000000
    /\ call.p.tsunamiRisk = "EXTREME"
    /\ call.out.fatalityRate = 90000

NonNegative(n) == IsFinite(n) /\ n.v >= 0

\* C8: whatever size, density and speed the store is given (negative and
\* non-finite values included, counted as a zero contribution), the energy
\* readout is a finite non-negative number and craterKm and the blast,
\* seismic and tsunami radii are non-negative.
C8_EnergyTotalDefined ==
    /\ NonNegative(store.readouts.energyTNT)
    /\ NonNegative(store.readouts.craterKm)
    /\ NonNegative(store.blastKm)
    /\ NonNegative(store.seismicKm)
    /\ NonNegative(store.tsunamiKm)

\* C8, delimiting the failure: while size, density and speed are finite and
\* non-negative the readouts are finite and non-negative.
C8_ValidInputsNonNegative ==
    (NonNegative(store.size) /\ NonNegative(store.speed) /\ NonNegative(store.density))
        => C8_EnergyTotalDefined

PanelData ==
    <<panel.elevation, panel.terrainType, panel.tsunamiRisk, panel.densityAssessment,
      panel.casualtyEstimate>>

\* the step is the arrival of lookup r's answer: nothing else leaves the store
\* alone and takes r out of flight
Answered(r) == store' = store /\ r \in net.pending /\ r \notin net'.pending

\* C3: in ImpactMap, the answer of an elevation or density lookup that was
\* abandoned - the impact location has changed since it was issued, or the
\* panel was closed or reset - is discarded: its arrival leaves elevation,
\* terrainType, tsunamiRisk, densityAssessment and casualtyEstimate as they were.
C3_AbandonedAnswerDiscarded ==
    [][\A r \in net.pending :
          (r.by = "panel" /\ (~r.live \/ r.loc # ImpactLoc(store)) /\ Answered(r))
              => PanelData' = PanelData]_vars

\* C3, delimiting the failure: the answer of a lookup issued by a panel that
\* was closed or reset since is discarded.
C3_ClosedPanelAnswerDiscarded ==
    [][\A r \in net.pending :
          (r.by = "panel" /\ ~r.live /\ Answered(r)) => PanelData' = PanelData]_vars

\* C4: a population-density lookup for location L is started only with the
\* elevation, and the terrain derived from it, that the elevation lookup for
\* the same L returned (or, in QuizMode, with Unknown when that lookup
\* failed), in QuizMode's build and in ImpactMap alike.
C4_DensityAfterElevation ==
    \A r \in net.pending :
        r.kind = "density" =>
            IF r.by = "panel"
            THEN /\ r.elevation = ElevationAt(r.loc)
                 /\ r.terrain = classifyTerrain(Some(ElevationAt(r.loc)))
            ELSE /\ r.tsu.elevation \in {Null, Some(ElevationAt(r.loc))}
                 /\ r.tsu.terrain = classifyTerrain(r.tsu.elevation)

SameProvenance(a, b) == a.source = b.source /\ a.category = b.category /\ a.note = b.note

\* C7: the density carried inside the CasualtyEstimate ImpactMap stores, and
\* inside the one QuizMode passes to buildCasualtyQuestion, has the source,
\* category and note of the density lookup it was computed from.
C7_EstimateKeepsProvenance ==
    /\ ~IsNull(panel.casualtyEstimate) =>
          SameProvenance(Val(panel.casualtyEstimate).density, Val(panel.densityAssessment))
    /\ call.fn = "QuizMode" => SameProvenance(call.cas.density, call.dens)

\* C7, delimiting the failure: the estimate QuizMode passes on carries the
\* lookup's density record.
C7_QuizKeepsProvenance ==
    call.fn = "QuizMode" => call.cas.density = call.dens

\* pi * Re^2 with Re = max(0.1, craterKm/2 + 0.6 * max(0, 2.5 * craterKm))
StatedArea(craterKm) ==
    LET Re == Max(10, craterKm \div 2 + (6 * Max(0, (5 * craterKm) \div 2)) \div 10)
    IN MulDiv(Re * Re, 355, 113)

\* C10: every CasualtyEstimate ImpactMap publishes, the ocean branch's
\* included, has fatalityRate in [0.03, 0.9] and areaKm2 = pi * Re^2 with
\* Re = max(0.1, craterKm/2 + 0.6 * max(0, blastRadiusKm)).
C10_PublishedEstimateInRange ==
    [][\A r \in net.pending :
          (r.kind = "density" /\ r.by = "panel" /\ r.live /\ Answered(r)) =>
              LET e == Val(panel'.casualtyEstimate)
              IN /\ e.fatalityRate >= 3000
                 /\ e.fatalityRate <= 90000
                 /\ e.areaKm2 = StatedArea(r.craterKm)]_vars

\* C10, delimiting the failure: outside the ocean branch of lines 266-279 the
\* published estimate is in range.
C10_LandEstimateInRange ==
    [][\A r \in net.pending :
          (r.kind = "density" /\ r.by = "panel" /\ r.live /\ Answered(r)
           /\ Val(panel'.casualtyEstimate).fatalityRate # 0) =>
              LET e == Val(panel'.casualtyEstimate)
              IN /\ e.fatalityRate >= 3000
                 /\ e.fatalityRate <= 90000
                 /\ e.areaKm2 = StatedArea(r.craterKm)]_vars

(***************************************************************************)
(* C11..C20                                                                *)
(***************************************************************************)

\* the tier assessTsunami computes for the elevation, energy and crater of the
\* last analyzeEnvironmentalEffects call
TsunamiTierOf(c) ==
    assessTsunami([kind |-> "ok", elevation |-> c.elevation], c.energyTNT, c.craterKm).risk

\* C11: for the same elevation, energy and crater size, the tsunami tier the
\* impact-analysis panel passes to estimateCasualties is the tier assessTsunami
\* computes from the coastal wave height
C11_PanelTierIsAssessedTier ==
    call.fn = "analyzeEnvironmentalEffects" => call.tier = TsunamiTierOf(call)

\* C11, delimited: on mountains (500 m and above) both give NEGLIGIBLE
C11_MountainTierAgrees ==
    (call.fn = "analyzeEnvironmentalEffects" /\ call.elevation >= 500)
        => call.tier = "NEGLIGIBLE" /\ TsunamiTierOf(call) = "NEGLIGIBLE"

IsLethalityCall == call.fn = "assessLethality"

\* the unrounded risks of the last assessLethality call
Unrounded == lethalityRisks(call.inputs, FIXED_TARGET.lat, FIXED_TARGET.lon)

\* C12: in every HazardBreakdown returned by assessLethality, isLethal is true
\* if and only if the returned killProbability is at least 0.5
C12_LethalIffHalf ==
    IsLethalityCall => (call.out.isLethal <=> call.out.killProbability >= 50)

\* C12, delimited: a lethal breakdown returns at least 0.5, and a returned
\* probability above 0.5 is lethal; only a returned 0.50 can be either
C12_LethalExceptAtHalf ==
    IsLethalityCall =>
        /\ call.out.isLethal => call.out.killProbability >= 50
        /\ call.out.killProbability > 50 => call.out.isLethal

\* the hazard the stated rule names for three risks: the largest, ties going
\* to blast, then seismic, then tsunami; none when all are 0
StatedDominant(b, s, w) ==
    IF b = 0 /\ s = 0 /\ w = 0 THEN "none"
    ELSE IF b >= s /\ b >= w THEN "blast"
    ELSE IF s >= w THEN "seismic"
    ELSE "tsunami"

\* C13: in every HazardBreakdown returned by assessLethality, dominantHazard
\* names the hazard with the largest of the three returned risks, ties going to
\* blast, then seismic, then tsunami, and is 'none' when the three are all 0
C13_DominantIsLargestReturned ==
    IsLethalityCall =>
        call.out.dominantHazard =
            StatedDominant(call.out.blastRisk, call.out.seismicRisk, call.out.tsunamiRisk)

\* C13, delimited: dominantHazard follows the stated rule on the risks as they
\* are before rounding
C13_DominantIsLargestUnrounded ==
    IsLethalityCall =>
        call.out.dominantHazard =
            StatedDominant(Unrounded.blastRisk, Unrounded.seismicRisk, Unrounded.tsunamiRisk)

\* the target is at least as far from the impact as each of the three radii
OutOfReach ==
    /\ call.out.distanceKm >= call.inputs.blastKm
    /\ call.out.distanceKm >= call.inputs.seismicKm
    /\ call.out.distanceKm >= call.inputs.tsunamiKm

\* C14 as stated: for non-negative radii and a target whose distance from the
\* impact is at least each of the three radii, assessLethality returns
\* killProbability 0 and dominantHazard 'none'
C14_OutOfReachIsHarmless ==
    (IsLethalityCall /\ OutOfReach)
        => call.out.killProbability = 0 /\ call.out.dominantHazard = "none"

\* C14: for non-negative radii and a target that is more than 1 km from the
\* impact and at least as far as each of the three radii, assessLethality
\* returns killProbability 0 and dominantHazard 'none' (within 1 km a radius of
\* at most 1 km is a step at the inner radius of 1 km)
C14_HarmlessBeyondOneKm ==
    (IsLethalityCall /\ OutOfReach /\ call.out.distanceKm > 100)
        => call.out.killProbability = 0 /\ call.out.dominantHazard = "none"

\* a target 100.07 km from an impact whose three radii are 100 km
C14_Witness ==
    /\ IsLethalityCall
    /\ call.inputs.blastKm = 10000 /\ call.inputs.seismicKm = 10000
    /\ call.inputs.tsunamiKm = 10000
    /\ call.out.distanceKm = 10007
    /\ call.out.killProbability = 0
    /\ call.out.dominantHazard = "none"

\* the target coincides with the impact point and the three radii are positive
AtImpact ==
    /\ IsLethalityCall
    /\ call.out.distanceKm = 0
    /\ call.inputs.blastKm > 0 /\ call.inputs.seismicKm > 0 /\ call.inputs.tsunamiKm > 0

\* the stated approach-angle modifier, in 1e-4
StatedAngleModifier(angleDeg) ==
    IF ~IsNull(angleDeg) /\ Val(angleDeg) < 20 THEN 8500
    ELSE IF ~IsNull(angleDeg) /\ Val(angleDeg) < 35 THEN 9300
    ELSE 10000

\* the stated coastal modifier times the stated elevation modifier, in 1e-4
StatedTsunamiModifier(isCoastal, elevationM) ==
    LET coastal   == IF isCoastal = Some(TRUE) THEN 100 ELSE 15
        elevation == IF ~IsNull(elevationM) /\ Val(elevationM) >= 50 THEN 25
                     ELSE IF ~IsNull(elevationM) /\ Val(elevationM) >= 20 THEN 50
                     ELSE 100
    IN coastal * elevation

\* killProbability = 1 - (1-blastRisk)(1-seismicRisk)(1-tsunamiRisk) on a
\* returned breakdown, and it is at least each risk
StatedCombination(o) ==
    /\ 10000 * (100 - o.killProbability)
          = (100 - o.blastRisk) * (100 - o.seismicRisk) * (100 - o.tsunamiRisk)
    /\ o.killProbability >= o.blastRisk
    /\ o.killProbability >= o.seismicRisk
    /\ o.killProbability >= o.tsunamiRisk

\* C15 as stated: at distance 0 with positive radii, blastRisk = 1, seismicRisk
\* is the approach-angle modifier, tsunamiRisk is the coastal modifier times the
\* elevation modifier, and killProbability combines them
C15_RisksAtImpactExact ==
    AtImpact =>
        /\ call.out.blastRisk = 100
        /\ 100 * call.out.seismicRisk = StatedAngleModifier(call.inputs.approachAngleDeg)
        /\ 100 * call.out.tsunamiRisk =
              StatedTsunamiModifier(call.inputs.targetIsCoastal, call.inputs.targetElevationM)
        /\ StatedCombination(call.out)

\* C15: at distance 0 with positive radii, blastRisk = 1, seismicRisk is the
\* approach-angle modifier, tsunamiRisk is the coastal modifier times the
\* elevation modifier rounded to two decimals (within 0.005 of the product),
\* and killProbability = 1 - (1-blastRisk)(1-seismicRisk)(1-tsunamiRisk) = 1,
\* at least the largest risk
C15_RisksAtImpactRounded ==
    AtImpact =>
        /\ call.out.blastRisk = 100
        /\ 100 * call.out.seismicRisk = StatedAngleModifier(call.inputs.approachAngleDeg)
        /\ Abs(100 * call.out.tsunamiRisk
                 - StatedTsunamiModifier(call.inputs.targetIsCoastal,
                                         call.inputs.targetElevationM)) <= 50
        /\ call.out.killProbability = 100
        /\ StatedCombination(call.out)

\* an inland target 50 m up, on the impact point: 0.15 * 0.25 is returned as 0.04
C15_Witness ==
    /\ AtImpact
    /\ call.inputs.targetIsCoastal = Some(FALSE)
    /\ call.inputs.targetElevationM = Some(50)
    /\ call.inputs.approachAngleDeg = Some(15)
    /\ call.out.tsunamiRisk = 4
    /\ call.out.seismicRisk = 85

\* the stated table of place classes, people per km^2
StatedPlaceDensity ==
    [city |-> 5000, neighbourhood |-> 3000, suburb |-> 2500,
     town |-> 1500, village |-> 400, hamlet |-> 80]

\* the known classes among the elements of a place-tag answer
KnownPresent(els) == {els[i] : i \in 1..Len(els)} \cap DOMAIN StatedPlaceDensity

StatedTerrain(elevation) ==
    CASE IsNull(elevation) -> "Unknown"
      [] ~IsNull(elevation) /\ Val(elevation) < 0 -> "Ocean/Sea"
      [] ~IsNull(elevation) /\ 0 <= Val(elevation) /\ Val(elevation) < 10 -> "Coastal/Low-lying"
      [] ~IsNull(elevation) /\ 10 <= Val(elevation) /\ Val(elevation) < 100 -> "Plains/Valley"
      [] ~IsNull(elevation) /\ 100 <= Val(elevation) /\ Val(elevation) < 500 -> "Hills/Plateau"
      [] ~IsNull(elevation) /\ Val(elevation) >= 500 -> "Mountains"

\* C17: terrain classification maps elevation e to Ocean/Sea when e < 0,
\* Coastal/Low-lying when 0 <= e < 10, Plains/Valley when 10 <= e < 100,
\* Hills/Plateau when 100 <= e < 500, Mountains when e >= 500 and Unknown when
\* the elevation is null; the classification of assessTsunami and that of
\* ImpactMap's casualty calculation agree for every non-null elevation
C17_TerrainBuckets ==
    call.fn = "assessTsunami" =>
        /\ call.out.terrain = StatedTerrain(call.out.elevation)
        /\ ~IsNull(call.out.elevation)
              => panelTerrain(Val(call.out.elevation)) = call.out.terrain

\* the two sides of a threshold: 10 m is Plains/Valley, 499 m is Hills/Plateau
C17_Witness ==
    /\ call.fn = "assessTsunami"
    /\ call.resp.kind = "ok"
    /\ \/ call.resp.elevation = 10 /\ call.out.terrain = "Plains/Valley"
       \/ call.resp.elevation = 499 /\ call.out.terrain = "Hills/Plateau"

\* the stated risk of a coastal wave height (cm)
StatedRisk(waveCoastM) ==
    IF waveCoastM > 5000 THEN "EXTREME"
    ELSE IF waveCoastM > 1500 THEN "HIGH"
    ELSE IF waveCoastM > 500 THEN "MODERATE"
    ELSE IF waveCoastM > 100 THEN "LOW"
    ELSE "NEGLIGIBLE"

StatedRound(n) ==
    LET e == CHOOSE k \in 0..8 : Pow10(k) <= n /\ n < Pow10(k + 1)
        s == IF 2 * n < 3 * Pow10(e) THEN 1
             ELSE IF 2 * n < 7 * Pow10(e) THEN 2
             ELSE IF 2 * n < 15 * Pow10(e) THEN 5
             ELSE 10
    IN s * Pow10(e)

\* density * area * fatalityRate of the last estimateCasualties call, in
\* hundredths of a person
RawCasualties ==
    MulDiv(MulDiv(call.out.areaKm2, call.p.densityPkm2, 100), call.out.fatalityRate, 100000)

\* C19: the casualties returned by estimateCasualties are 0 when the raw product
\* density * area * fatalityRate is non-finite or not positive, and otherwise
\* s * 10^e with e = floor(log10(raw)) and s the member of {1, 2, 5, 10} for the
\* mantissa (1 below 1.5, 2 below 3.5, 5 below 7.5, else 10); never negative
C19_CasualtiesRounded ==
    /\ call.fn = "estimateCasualties" =>
          /\ call.out.casualties >= 0
          /\ call.out.casualties =
                (IF RawCasualties <= 0 THEN 0 ELSE StatedRound(RawCasualties))
    /\ call.fn = "estimateCasualtiesOf" =>
          /\ call.out.casualties >= 0
          /\ (~IsFinite(call.p.energyTNT) /\ call.p.energyTNT.k = "nan")
                => call.out.casualties = 0
          /\ ~IsFinite(call.p.densityPkm2) => call.out.casualties = 0
          /\ (IsFinite(call.p.densityPkm2) /\ call.p.densityPkm2.v > 0
              /\ call.p.energyTNT.k # "nan") => call.out.casualties > 0

\* 80 people per km^2 over 0.0314 km^2 at a rate of 0.32: the raw 0.80 has
\* mantissa 8 and is returned as 10 * 10^-1 = 1
C19_Witness ==
    /\ call.fn = "estimateCasualties"
    /\ call.p.densityPkm2 = 80
    /\ call.out.areaKm2 = 314
    /\ call.out.fatalityRate = 32000
    /\ RawCasualties = 80
    /\ call.out.casualties = 100

\* C20: estimateCasualties called with densityPkm2 = 0 returns casualties = 0
\* for every energyTNT, craterKm, blastRadiusKm and tsunamiRisk
C20_ZeroDensityZeroCasualties ==
    /\ (call.fn = "estimateCasualties" /\ call.p.densityPkm2 = 0)
          => call.out.casualties = 0
    /\ (call.fn = "estimateCasualtiesOf" /\ call.p.densityPkm2 = Fin(0))
          => call.out.casualties = 0

\* no density under the largest energy and an EXTREME tsunami
C20_Witness ==
    /\ call.fn = "estimateCasualties"
    /\ call.p.densityPkm2 = 0
    /\ call.p.energyTNT = 1000000000
    /\ call.p.tsunamiRisk = "EXTREME"
    /\ call.out.areaKm2 > 0
    /\ call.out.casualties = 0

(***************************************************************************)
(* C21..C30                                                                *)
(***************************************************************************)
\* C21: for positive size, density and speed, the energy in Mt TNT is strictly
\* larger at hi than at lo whenever hi is lo with one parameter raised and the
\* other two held fixed
C21_EnergyStrictlyIncreasing ==
    call.fn = "estimateEnergyMtTNT" =>
        /\ call.outLo.k = "fin" /\ call.outHi.k = "fin"
        /\ 0 < call.outLo.v
        /\ call.outLo.v < call.outHi.v

\* the iron preset's density against the small preset's, size and speed fixed
C21_Witness ==
    /\ call.fn = "estimateEnergyMtTNT"
    /\ call.lo = <<120, 3000, 18>>
    /\ call.hi = <<120, 7800, 18>>
    /\ call.outLo = Fin(105095)
    /\ call.outHi.v > 2 * call.outLo.v

\* C22: in the initial store state and after any sequence of setSize, setSpeed,
\* setDensity, selectPreset, setNasaAsteroidData, clearNasaData and setParam
\* calls, the derived values are those of the current parameters: with E the
\* energy of the current size, density and speed, blastKm = 80 + 5E,
\* seismicKm = 40 + 2E, tsunamiKm = 120 + 6E, readouts.energyTNT = E and
\* readouts.craterKm = 1.2 cbrt(E)
C22_DerivedValuesCurrent ==
    LET E == estimateEnergyMtTNT(store.size, store.density, store.speed)
    IN /\ store.readouts.energyTNT = E
       /\ store.blastKm = (IF E.k = "fin" THEN Fin(8000 + (5 * E.v) \div 10) ELSE E)
       /\ store.seismicKm = (IF E.k = "fin" THEN Fin(4000 + (2 * E.v) \div 10) ELSE E)
       /\ store.tsunamiKm = (IF E.k = "fin" THEN Fin(12000 + (6 * E.v) \div 10) ELSE E)
       /\ store.readouts.craterKm = craterOf(E)
       /\ store.readouts.size = store.size
       /\ store.readouts.speed = store.speed
       /\ store.readouts.density = store.density

\* NASA data was applied, then setParam set the size and the density: the
\* energy on display is that of the speed from the data with the new size and
\* density
C22_Witness ==
    /\ store.useNasaData
    /\ store.size = Fin(300)
    /\ store.speed = Fin(100)
    /\ store.density = Fin(2500)
    /\ store.readouts.energyTNT = estimateEnergyMtTNT(Fin(300), Fin(2500), Fin(100))
    /\ store.readouts.energyTNT.v > 105095

DefaultImpactor ==
    store.size = Fin(120) /\ store.speed = Fin(18) /\ store.density = Fin(3000)

Near(x, target, tol) == x.k = "fin" /\ Abs(x.v - target) <= tol

\* C23: for the default impactor (120 m, 18 km/s, 3000 kg/m3) the energy is
\* about 0.088 Mt TNT, blastKm about 80.44, seismicKm about 40.18, tsunamiKm
\* about 120.53 and craterKm about 0.536.
C23_DefaultsAsStated ==
    DefaultImpactor =>
        /\ Near(store.readouts.energyTNT, 88, 1)
        /\ Near(store.blastKm, 8044, 1)
        /\ Near(store.seismicKm, 4018, 1)
        /\ Near(store.tsunamiKm, 12053, 1)
        /\ Near(store.readouts.craterKm, 54, 1)

\* C23, with the values the formula gives: for the default impactor the energy
\* is about 105.1 Mt TNT, blastKm about 605.5, seismicKm about 250.2,
\* tsunamiKm about 750.6 and craterKm about 5.66.
C23_DefaultsComputed ==
    DefaultImpactor =>
        /\ Near(store.readouts.energyTNT, 105100, 10)
        /\ Near(store.blastKm, 60550, 5)
        /\ Near(store.seismicKm, 25020, 5)
        /\ Near(store.tsunamiKm, 75060, 5)
        /\ Near(store.readouts.craterKm, 566, 1)

\* the default impactor, selected again as the 'small' preset after NASA data
\* had replaced it
C23_Witness ==
    /\ DefaultImpactor
    /\ store.useNasaData
    /\ store.selectedPresetId = "small"
    /\ store.readouts.energyTNT = Fin(105095)

\* the stop point of the quiz: quizStopT clamped to [0, 0.999], times duration
StopAt(st) == (Min(999, Max(0, st.quizStopT)) * st.duration) \div 1000

\* tick is not turned away: running, no impact map, no quiz
Flying(st) == st.running /\ ~st.showImpactMap /\ ~st.quizVisible

\* the step is tick(dt)
TickOf(dt) == \E elapsed \in ShakeElapsed : store' = tickState(store, dt, elapsed)

C25_BlockedCallsChangeNothing ==
    [][/\ (StoreTick /\ ~Flying(store)) => store' = store
       /\ ((Start \/ Pause \/ StoreToggleRun) /\ store.showImpactMap)
              => store'.running = store.running]_vars

\* the impact map is open over a flight that is still running, shaking, short
\* of the impact: the frame loop keeps calling tick
C25_Witness ==
    /\ store.showImpactMap
    /\ store.running
    /\ store.isShaking
    /\ store.time < store.duration

\* C26: tick starts the impact shake at most once between two resets of
\* hasShaken: the shake starts only in a tick, from hasShaken false, and sets
\* hasShaken; and hasShaken is cleared only by reset, selectPreset and
\* setNasaAsteroidData - not by moving time back before the impact.
C26_ShakeOncePerSimulation ==
    [][/\ store.isShaking => store.hasShaken
       /\ (~store.isShaking /\ store'.isShaking)
              => (StoreTick /\ ~store.hasShaken /\ store'.hasShaken)
       /\ (store.hasShaken /\ ~store'.hasShaken)
              => (StoreReset \/ StoreSelectPreset \/ StoreSetNasaAsteroidData)]_vars

\* the impact map was closed after the shake: time is 0.1 s before the impact
\* again, hasImpacted has been cleared by a tick, and the flight runs on
C26_Witness ==
    /\ store.hasShaken
    /\ ~store.isShaking
    /\ ~store.hasImpacted
    /\ Flying(store)
    /\ store.time = store.duration - 100
    /\ store.duration = 10000

\* C27: in the impact-analysis panel every outcome of the elevation lookup - a
\* usable elevation, a thrown error, or a response without a results entry -
\* eventually moves tsunamiRisk out of 'Calculating...' (as long as the panel
\* stays open).
C27_RiskLeavesCalculating ==
    (panel.mounted /\ panel.tsunamiRisk = "Calculating...")
        ~> (~panel.mounted \/ panel.tsunamiRisk # "Calculating...")

\* the fields the interface locks
LockedFields ==
    <<store.size, store.speed, store.density, store.approachAngle,
      store.targetLat, store.targetLon, store.time>>

\* C28: while the simulation is running or the quiz is visible, no action of
\* the interface other than Launch/Pause, Reset and Show Impact Analysis
\* changes size, speed, density, approachAngle, the target location or time
\* (the frame loop's tick is not an action of the user).
C28_LockedWhileActive ==
    [][locked(store) =>
          \/ LockedFields' = LockedFields
          \/ StoreTick
          \/ StoreToggleRun
          \/ StoreReset
          \/ StoreShowImpactAnalysis]_vars

\* C29: QuizMode discards a question build that ends after the quiz was
\* unmounted: the arrival of either lookup's answer for such a build, on the
\* success path and on the error-fallback path, leaves questions and picked
\* (of the closed quiz, or of the instance mounted since) as they were.
C29_DeadBuildDiscarded ==
    [][\A r \in net.pending :
          (r.by = "quiz" /\ ~r.live /\ Answered(r))
              => (quiz'.questions = quiz.questions /\ quiz'.picked = quiz.picked)]_vars

\* a build whose quiz was closed has ended in the catch while the quiz, opened
\* again, still waits for the questions of its own build
C29_Witness ==
    /\ call.fn = "QuizMode.catch"
    /\ ~call.live
    /\ quiz.mounted
    /\ IsNull(quiz.questions)
    /\ \E r \in net.pending : r.by = "quiz" /\ r.live

\* C30: in every reachable store state 0 <= time <= duration and
\* duration >= 0.1 s.
C30_TimeWithinDuration ==
    /\ 0 <= store.time
    /\ store.time <= store.duration
    /\ store.duration >= 100

====
